---- MODULE Spec2Model ----
(***************************************************************************)
(* A model of three parts of the ziggurat test harness:                    *)
(*   - src/common/message.rs: the Version message codec,                   *)
(*   - src/tools/metrics/recorder.rs: the SimpleRecorder metrics recorder, *)
(*   - src/tests/performance/ping_pong.rs: the ping-pong throughput test.  *)
(*                                                                         *)
(* Machine integers keep their width.  TLC's integers stop at 2^31 - 1, so *)
(* a u16/u32/u64 is a little-endian sequence of 1/2/4 limbs of 16 bits.    *)
(* A byte buffer (Vec<u8>, the TCP stream, a String's bytes) is a sequence *)
(* of chunks, each explicit bytes followed by one byte repeated n times (n *)
(* a u64), so that strings of 2^32 bytes and more fit in a state.          *)
(***************************************************************************)
EXTENDS Integers, Sequences, FiniteSets, Bags, TLC

(***************************************************************************)
(* Fixed-width integers.                                                   *)
(***************************************************************************)
Limb == 256 * 256

Zeros(w) == [i \in 1..w |-> 0]

\* The w-limb value of a natural n < 2^31 (n < 2^16 when w = 1).
Word(n, w) ==
    [i \in 1..w |-> IF i = 1 THEN n % Limb
                    ELSE IF i = 2 THEN n \div Limb ELSE 0]

U16(n) == Word(n, 1)
U32(n) == Word(n, 2)
U64(n) == Word(n, 4)

RECURSIVE LtFrom(_, _, _)
LtFrom(a, b, i) ==
    IF i = 0 THEN FALSE
    ELSE IF a[i] # b[i] THEN a[i] < b[i]
    ELSE LtFrom(a, b, i - 1)

\* Unsigned comparison of two values of the same width.
NumLt(a, b) == LtFrom(a, b, Len(a))
NumLe(a, b) == ~NumLt(b, a)

RECURSIVE AddFrom(_, _, _, _)
AddFrom(a, b, i, c) ==
    IF i > Len(a) THEN <<>>
    ELSE LET s == a[i] + b[i] + c
         IN  <<s % Limb>> \o AddFrom(a, b, i + 1, s \div Limb)

\* a + b at the width of a (the sums of the code never reach 2^64).
NumAdd(a, b) == AddFrom(a, b, 1, 0)

RECURSIVE SubFrom(_, _, _, _)
SubFrom(a, b, i, c) ==
    IF i > Len(a) THEN <<>>
    ELSE LET d == a[i] - b[i] - c
         IN  <<(d + Limb) % Limb>> \o SubFrom(a, b, i + 1, IF d < 0 THEN 1 ELSE 0)

\* a - b at the width of a, for a >= b.
NumSub(a, b) == SubFrom(a, b, 1, 0)

\* `x as u16`, `x as u32`, `x as u64`, `x as usize` (a 64-bit target):
\* truncation keeps the low limbs, widening adds zero limbs.
Cast(x, w) ==
    IF Len(x) >= w THEN SubSeq(x, 1, w) ELSE x \o Zeros(w - Len(x))

\* {integer}::to_le_bytes
to_le_bytes(x) ==
    [i \in 1..(2 * Len(x)) |->
        IF i % 2 = 1 THEN x[(i + 1) \div 2] % 256 ELSE x[i \div 2] \div 256]

\* {integer}::from_le_bytes, and what read_u16_le .. read_u64_le compute
from_le_bytes(bs) ==
    [i \in 1..(Len(bs) \div 2) |-> bs[2 * i - 1] + 256 * bs[2 * i]]

Reverse(s) == [i \in 1..Len(s) |-> s[Len(s) + 1 - i]]

\* u16::to_be_bytes
to_be_bytes(x) == Reverse(to_le_bytes(x))

\* The model is of a little-endian target (x86-64, aarch64).
TargetLittleEndian == TRUE

\* u16::to_be: the value whose memory bytes are x's big-endian bytes.
to_be(x) ==
    IF TargetLittleEndian THEN from_le_bytes(Reverse(to_le_bytes(x))) ELSE x

Zero64 == U64(0)
One64 == U64(1)

\* `x as usize` used as an index or a count, for x < 2^31.
Index(x) == x[1] + Limb * x[2]

(***************************************************************************)
(* Byte buffers.  A buffer is a sequence of chunks; a chunk is explicit    *)
(* bytes bs followed by the byte b repeated n times.  Normal form: no empty*)
(* chunk, b = 0 when n = 0, and a chunk without a run is the last one.     *)
(***************************************************************************)
Chunk(bs, b, n) == [bs |-> bs, b |-> b, n |-> n]

\* The buffer holding the explicit bytes bs.
Bytes(bs) == IF bs = <<>> THEN <<>> ELSE <<Chunk(bs, 0, Zero64)>>

\* The buffer holding the byte b, n times.
Fill(b, n) == IF n = Zero64 THEN <<>> ELSE <<Chunk(<<>>, b, n)>>

\* Concatenation of two buffers.
Cat(x, y) ==
    IF x = <<>> THEN y
    ELSE IF y = <<>> THEN x
    ELSE LET l == x[Len(x)]
             f == y[1]
         IN  IF l.n = Zero64
             THEN SubSeq(x, 1, Len(x) - 1)
                  \o <<Chunk(l.bs \o f.bs, f.b, f.n)>> \o Tail(y)
             ELSE IF f.bs = <<>> /\ f.b = l.b
             THEN SubSeq(x, 1, Len(x) - 1)
                  \o <<Chunk(l.bs, l.b, NumAdd(l.n, f.n))>> \o Tail(y)
             ELSE x \o y

\* Vec<u8>::write_all
write_all(buf, bs) == Cat(buf, Bytes(bs))

RECURSIVE BufLen(_)
\* Vec::len / str::len of a buffer, as a usize
BufLen(buf) ==
    IF buf = <<>> THEN Zero64
    ELSE NumAdd(NumAdd(U64(Len(Head(buf).bs)), Head(buf).n), BufLen(Tail(buf)))

\* The chunk c without its first k bytes, as a buffer (k is at most the
\* number of explicit bytes of c).
ChunkFrom(c, k) ==
    IF k = Len(c.bs) /\ c.n = Zero64 THEN <<>>
    ELSE <<[c EXCEPT !.bs = SubSeq(c.bs, k + 1, Len(c.bs))]>>

RECURSIVE TakeBytes(_, _)
\* AsyncReadExt::read_exact of k bytes: the bytes, the rest of the
\* stream, and ok = FALSE when the stream ends first (UnexpectedEof).
TakeBytes(s, k) ==
    IF k = 0 THEN [ok |-> TRUE, bytes |-> <<>>, rest |-> s]
    ELSE IF s = <<>> THEN [ok |-> FALSE, bytes |-> <<>>, rest |-> s]
    ELSE LET c == Head(s)
         IN  IF k <= Len(c.bs)
             THEN [ok |-> TRUE, bytes |-> SubSeq(c.bs, 1, k),
                   rest |-> ChunkFrom(c, k) \o Tail(s)]
             ELSE IF c.bs # <<>>
             THEN LET t == TakeBytes(ChunkFrom(c, Len(c.bs)) \o Tail(s), k - Len(c.bs))
                  IN  [ok |-> t.ok, bytes |-> c.bs \o t.bytes, rest |-> t.rest]
             ELSE IF NumLe(U64(k), c.n)
             THEN [ok |-> TRUE, bytes |-> [i \in 1..k |-> c.b],
                   rest |-> Fill(c.b, NumSub(c.n, U64(k))) \o Tail(s)]
             ELSE LET t == TakeBytes(Tail(s), k - Index(c.n))
                  IN  [ok |-> t.ok,
                       bytes |-> [i \in 1..Index(c.n) |-> c.b] \o t.bytes,
                       rest |-> t.rest]

RECURSIVE ReadInto(_, _)
\* read_exact into a zeroed Vec of len bytes: what the Vec holds afterwards
\* (the bytes read, then the zeros never overwritten), the rest of the
\* stream, and ok = FALSE when the stream ended first.
ReadInto(s, len) ==
    IF len = Zero64 THEN [ok |-> TRUE, buf |-> <<>>, rest |-> s]
    ELSE IF s = <<>> THEN [ok |-> FALSE, buf |-> Fill(0, len), rest |-> s]
    ELSE LET c == Head(s)
             m == U64(Len(c.bs))
         IN  IF c.bs # <<>> /\ NumLe(m, len)
             THEN LET t == ReadInto(Cat(Fill(c.b, c.n), Tail(s)), NumSub(len, m))
                  IN  [ok |-> t.ok, buf |-> Cat(Bytes(c.bs), t.buf), rest |-> t.rest]
             ELSE IF c.bs # <<>>
             THEN [ok |-> TRUE, buf |-> Bytes(SubSeq(c.bs, 1, Index(len))),
                   rest |-> <<[c EXCEPT !.bs = SubSeq(c.bs, Index(len) + 1,
                                                      Len(c.bs))]>>
                            \o Tail(s)]
             ELSE IF NumLe(c.n, len)
             THEN LET t == ReadInto(Tail(s), NumSub(len, c.n))
                  IN  [ok |-> t.ok, buf |-> Cat(Fill(c.b, c.n), t.buf), rest |-> t.rest]
             ELSE [ok |-> TRUE, buf |-> Fill(c.b, len),
                   rest |-> <<[c EXCEPT !.n = NumSub(c.n, len)]>> \o Tail(s)]

(***************************************************************************)
(* UTF-8 validation, as String::from_utf8 does it (Unicode table 3-7).     *)
(* A scanner state is the number of continuation bytes still needed and    *)
(* the range the next one must lie in; need = -1 is "invalid".             *)
(***************************************************************************)
Utf8Start == [need |-> 0, lo |-> 128, hi |-> 191]
Utf8Bad == [need |-> -1, lo |-> 128, hi |-> 191]

Utf8Step(st, b) ==
    IF st.need = -1 THEN st
    ELSE IF st.need > 0
         THEN IF b >= st.lo /\ b <= st.hi
              THEN [need |-> st.need - 1, lo |-> 128, hi |-> 191]
              ELSE Utf8Bad
    ELSE IF b <= 127 THEN Utf8Start
    ELSE IF b >= 194 /\ b <= 223 THEN [need |-> 1, lo |-> 128, hi |-> 191]
    ELSE IF b = 224 THEN [need |-> 2, lo |-> 160, hi |-> 191]
    ELSE IF b = 237 THEN [need |-> 2, lo |-> 128, hi |-> 159]
    ELSE IF b >= 225 /\ b <= 239 THEN [need |-> 2, lo |-> 128, hi |-> 191]
    ELSE IF b = 240 THEN [need |-> 3, lo |-> 144, hi |-> 191]
    ELSE IF b >= 241 /\ b <= 243 THEN [need |-> 3, lo |-> 128, hi |-> 191]
    ELSE IF b = 244 THEN [need |-> 3, lo |-> 128, hi |-> 143]
    ELSE Utf8Bad

RECURSIVE Utf8Times(_, _, _)
Utf8Times(st, b, k) ==
    IF st.need = -1 \/ k = 0 THEN st ELSE Utf8Times(Utf8Step(st, b), b, k - 1)

RECURSIVE Utf8Bytes(_, _, _)
Utf8Bytes(st, bs, i) ==
    IF st.need = -1 \/ i > Len(bs) THEN st
    ELSE Utf8Bytes(Utf8Step(st, bs[i]), bs, i + 1)

\* A run of an ASCII byte is valid at any length; no valid text repeats a
\* byte above 127 four times in a row.
Utf8Run(st, b, n) ==
    IF n = Zero64 THEN st
    ELSE IF b <= 127 THEN Utf8Step(st, b)
    ELSE IF NumLt(U64(3), n) THEN Utf8Bad
    ELSE Utf8Times(st, b, n[1])

RECURSIVE Utf8Scan(_, _)
Utf8Scan(st, buf) ==
    IF st.need = -1 \/ buf = <<>> THEN st
    ELSE LET c == Head(buf)
         IN  Utf8Scan(Utf8Run(Utf8Bytes(st, c.bs, 1), c.b, c.n), Tail(buf))

\* String::from_utf8(buf).is_ok()
from_utf8_ok(buf) == Utf8Scan(Utf8Start, buf).need = 0

(***************************************************************************)
(* src/common/message.rs                                                   *)
(***************************************************************************)
\* let magic = [0xfa, 0x1a, 0xf9, 0xbf];
magic == <<250, 26, 249, 191>>

\* b"version\0\0\0\0\0"
command == <<118, 101, 114, 115, 105, 111, 110, 0, 0, 0, 0, 0>>

SocketAddrV4(ip, port) == [tag |-> "V4", ip |-> ip, port |-> port]
SocketAddrV6(ip, port, flowinfo, scope_id) ==
    [tag |-> "V6", ip |-> ip, port |-> port,
     flowinfo |-> flowinfo, scope_id |-> scope_id]

\* Ipv4Addr::to_ipv6_mapped: ::ffff:a.b.c.d
to_ipv6_mapped(v4) == <<0, 0, 0, 0, 0, 0, 0, 0, 0, 0, 255, 255>> \o v4

\* Ipv6Addr::to_ipv4: Some(a.b.c.d) for ::a.b.c.d and for ::ffff:a.b.c.d,
\* None (the empty sequence here) for every other address.
to_ipv4(v6) ==
    IF /\ \A i \in 1..10 : v6[i] = 0
       /\ \/ v6[11] = 0 /\ v6[12] = 0
          \/ v6[11] = 255 /\ v6[12] = 255
    THEN <<SubSeq(v6, 13, 16)>>
    ELSE <<>>

\* SocketAddr::new
SocketAddr_new(ip_addr, port) ==
    IF ip_addr.tag = "V4" THEN SocketAddrV4(ip_addr.ip, port)
    ELSE SocketAddrV6(ip_addr.ip, port, U32(0), U32(0))

write_addr(buf, a) ==
    LET services == a[1]
        addr == a[2]
        ip == IF addr.tag = "V4" THEN to_ipv6_mapped(addr.ip) ELSE addr.ip
        b1 == write_all(buf, to_le_bytes(services))
        b2 == write_all(b1, ip)
    IN  write_all(b2, to_be_bytes(addr.port))

\* CompactSize with the first tier one too wide (the 1-byte form taken for
\* 253): a wrong encoder, kept to show that the CompactSize property tells.
CompactSize_wide_first_tier(l) ==
    IF NumLe(l, U64(253))
    THEN [bytes |-> <<l[1]>>, cs_len |-> 1]
    ELSE IF NumLe(l, U64(65535))
    THEN [bytes |-> <<253>> \o to_le_bytes(Cast(l, 1)), cs_len |-> 3]
    ELSE IF NumLe(l, <<65535, 65535, 0, 0>>)
    THEN [bytes |-> <<254>> \o to_le_bytes(Cast(l, 2)), cs_len |-> 5]
    ELSE [bytes |-> <<255>> \o to_le_bytes(Cast(l, 4)), cs_len |-> 9]

\* The CompactSize prefix of a length l (a usize): the bytes written and
\* the cs_len the match returns.
CompactSize(l) ==
    IF NumLe(l, U64(252))
    THEN [bytes |-> <<l[1]>>, cs_len |-> 1]
    ELSE IF NumLe(l, U64(65535))
    THEN [bytes |-> <<253>> \o to_le_bytes(Cast(l, 1)), cs_len |-> 3]
    ELSE IF NumLe(l, <<65535, 65535, 0, 0>>)
    THEN [bytes |-> <<254>> \o to_le_bytes(Cast(l, 2)), cs_len |-> 5]
    ELSE [bytes |-> <<255>> \o to_le_bytes(Cast(l, 4)), cs_len |-> 9]

\* write_string: the buffer afterwards and the Ok(l + cs_len) returned.
write_string(buf, s) ==
    LET l == BufLen(s)
        cs == CompactSize(l)
    IN  [buf |-> Cat(write_all(buf, cs.bytes), s),
         len |-> NumAdd(l, U64(cs.cs_len))]

(***************************************************************************)
(* SHA-256 (FIPS 180-4), as Sha256::digest of the sha2 crate computes it.  *)
(* A word is a u32, <<low limb, high limb>>.                               *)
(***************************************************************************)
Sha256_K ==
    <<<<12184, 17034>>, <<17553, 28983>>, <<64463, 46528>>, <<56229, 59829>>,
      <<49755, 14678>>, <<4593, 23025>>, <<33444, 37439>>, <<24277, 43804>>,
      <<43672, 55303>>, <<23297, 4739>>, <<34238, 9265>>, <<32195, 21772>>,
      <<23924, 29374>>, <<45566, 32990>>, <<1703, 39900>>, <<61812, 49563>>,
      <<27073, 58523>>, <<18310, 61374>>, <<40390, 4033>>, <<41420, 9228>>,
      <<11375, 11753>>, <<33962, 19060>>, <<43484, 23728>>, <<35034, 30457>>,
      <<20818, 38974>>, <<50797, 43057>>, <<10184, 45059>>, <<32711, 48985>>,
      <<3059, 50912>>, <<37191, 54695>>, <<25425, 1738>>, <<10599, 5161>>,
      <<2693, 10167>>, <<8504, 11803>>, <<28156, 19756>>, <<3347, 21304>>,
      <<29524, 25866>>, <<2747, 30314>>, <<51502, 33218>>, <<11397, 37490>>,
      <<59553, 41663>>, <<26187, 43034>>, <<35696, 49739>>, <<20899, 51052>>,
      <<59417, 53650>>, <<1572, 54937>>, <<13701, 62478>>, <<41072, 4202>>,
      <<49430, 6564>>, <<27656, 7735>>, <<30540, 10056>>, <<48309, 13488>>,
      <<3251, 14620>>, <<43594, 20184>>, <<51791, 23452>>, <<28659, 26670>>,
      <<33518, 29839>>, <<25455, 30885>>, <<30740, 33992>>, <<520, 36039>>,
      <<65530, 37054>>, <<27883, 42064>>, <<41975, 48889>>, <<30962, 50801>>>>

Sha256_H0 ==
    <<<<58983, 27145>>, <<44677, 47975>>, <<62322, 15470>>, <<62778, 42319>>,
      <<21119, 20750>>, <<26764, 39685>>, <<55723, 8067>>, <<52505, 23520>>>>

AndNibble ==
    <<<<0, 0, 0, 0, 0, 0, 0, 0, 0, 0, 0, 0, 0, 0, 0, 0>>,
      <<0, 1, 0, 1, 0, 1, 0, 1, 0, 1, 0, 1, 0, 1, 0, 1>>,
      <<0, 0, 2, 2, 0, 0, 2, 2, 0, 0, 2, 2, 0, 0, 2, 2>>,
      <<0, 1, 2, 3, 0, 1, 2, 3, 0, 1, 2, 3, 0, 1, 2, 3>>,
      <<0, 0, 0, 0, 4, 4, 4, 4, 0, 0, 0, 0, 4, 4, 4, 4>>,
      <<0, 1, 0, 1, 4, 5, 4, 5, 0, 1, 0, 1, 4, 5, 4, 5>>,
      <<0, 0, 2, 2, 4, 4, 6, 6, 0, 0, 2, 2, 4, 4, 6, 6>>,
      <<0, 1, 2, 3, 4, 5, 6, 7, 0, 1, 2, 3, 4, 5, 6, 7>>,
      <<0, 0, 0, 0, 0, 0, 0, 0, 8, 8, 8, 8, 8, 8, 8, 8>>,
      <<0, 1, 0, 1, 0, 1, 0, 1, 8, 9, 8, 9, 8, 9, 8, 9>>,
      <<0, 0, 2, 2, 0, 0, 2, 2, 8, 8, 10, 10, 8, 8, 10, 10>>,
      <<0, 1, 2, 3, 0, 1, 2, 3, 8, 9, 10, 11, 8, 9, 10, 11>>,
      <<0, 0, 0, 0, 4, 4, 4, 4, 8, 8, 8, 8, 12, 12, 12, 12>>,
      <<0, 1, 0, 1, 4, 5, 4, 5, 8, 9, 8, 9, 12, 13, 12, 13>>,
      <<0, 0, 2, 2, 4, 4, 6, 6, 8, 8, 10, 10, 12, 12, 14, 14>>,
      <<0, 1, 2, 3, 4, 5, 6, 7, 8, 9, 10, 11, 12, 13, 14, 15>>>>

\* a & b, a ^ b on limbs, a nibble at a time
And16(a, b) ==
    AndNibble[(a % 16) + 1][(b % 16) + 1]
    + 16 * AndNibble[((a \div 16) % 16) + 1][((b \div 16) % 16) + 1]
    + 256 * AndNibble[((a \div 256) % 16) + 1][((b \div 256) % 16) + 1]
    + 4096 * AndNibble[(a \div 4096) + 1][(b \div 4096) + 1]

Xor16(a, b) == a + b - 2 * And16(a, b)

And32(x, y) == <<And16(x[1], y[1]), And16(x[2], y[2])>>
Xor32(x, y) == <<Xor16(x[1], y[1]), Xor16(x[2], y[2])>>
Not32(x) == <<65535 - x[1], 65535 - x[2]>>

\* u32::rotate_right by n < 16, and by any n < 32
RotrLimbs(lo, hi, n) ==
    <<(lo \div 2^n) + (hi % 2^n) * 2^(16 - n),
      (hi \div 2^n) + (lo % 2^n) * 2^(16 - n)>>

rotate_right(x, n) ==
    IF n < 16 THEN RotrLimbs(x[1], x[2], n) ELSE RotrLimbs(x[2], x[1], n - 16)

\* x >> n for n < 16
shr(x, n) == <<(x[1] \div 2^n) + (x[2] % 2^n) * 2^(16 - n), x[2] \div 2^n>>

\* u32::wrapping_add of the words whose limbs add up to lo and hi
Wrapped(lo, hi) == <<lo % Limb, (hi + (lo \div Limb)) % Limb>>

wrapping_add(x, y) == Wrapped(x[1] + y[1], x[2] + y[2])

Xor3(x, y, z) == Xor32(Xor32(x, y), z)

BigSigma0(x) == Xor3(rotate_right(x, 2), rotate_right(x, 13), rotate_right(x, 22))
BigSigma1(x) == Xor3(rotate_right(x, 6), rotate_right(x, 11), rotate_right(x, 25))
SmallSigma0(x) == Xor3(rotate_right(x, 7), rotate_right(x, 18), shr(x, 3))
SmallSigma1(x) == Xor3(rotate_right(x, 17), rotate_right(x, 19), shr(x, 10))

Ch(x, y, z) == Xor32(And32(x, y), And32(Not32(x), z))
Maj(x, y, z) == Xor3(And32(x, y), And32(x, z), And32(y, z))

\* The 16 big-endian words of a 64-byte block.
BlockWords(bs) ==
    [i \in 1..16 |-> <<bs[4 * i - 1] * 256 + bs[4 * i],
                       bs[4 * i - 3] * 256 + bs[4 * i - 2]>>]

\* W[t] of the message schedule, for t from 17 on (the words are counted
\* from 1); the schedule and the working variables are looked at in every
\* step, which keeps their evaluation from nesting.
ScheduleWord(s1, w7, s0, w16) ==
    Wrapped(s1[1] + w7[1] + s0[1] + w16[1], s1[2] + w7[2] + s0[2] + w16[2])

NextWord(w, t) ==
    ScheduleWord(SmallSigma1(w[t - 2]), w[t - 7], SmallSigma0(w[t - 15]), w[t - 16])

RECURSIVE Schedule(_)
Schedule(w) == IF Len(w) >= 64 THEN w ELSE Schedule(Append(w, NextWord(w, Len(w) + 1)))

\* One round: v is <<a, b, c, d, e, f, g, h>>.
Temp1(h, s1, ch, k, w) ==
    Wrapped(h[1] + s1[1] + ch[1] + k[1] + w[1],
            h[2] + s1[2] + ch[2] + k[2] + w[2])

Temp2(v) == wrapping_add(BigSigma0(v[1]), Maj(v[1], v[2], v[3]))

Rotated(v, t1, t2) ==
    <<wrapping_add(t1, t2), v[1], v[2], v[3],
      wrapping_add(v[4], t1), v[5], v[6], v[7]>>

Round(v, k, w) ==
    Rotated(v, Temp1(v[8], BigSigma1(v[5]), Ch(v[5], v[6], v[7]), k, w), Temp2(v))

RECURSIVE Rounds(_, _, _)
Rounds(v, w, t) ==
    IF t > 64 \/ Len(v) # 8 THEN v
    ELSE Rounds(Round(v, Sha256_K[t], w[t]), w, t + 1)

\* compress256 of one block: the state h with the block mixed in
compress256(h, bs) ==
    LET v == Rounds(h, Schedule(BlockWords(bs)), 1)
    IN  [i \in 1..8 |-> wrapping_add(h[i], v[i])]

\* The padding: 0x80, zeros up to 56 modulo 64, the length in bits as a
\* big-endian u64.
Padding(left, len) ==
    left \o <<128>> \o [i \in 1..((55 - Len(left)) % 64) |-> 0]
         \o to_be_bytes(NumAdd(NumAdd(NumAdd(len, len), NumAdd(len, len)),
                               NumAdd(NumAdd(len, len), NumAdd(len, len))))

RECURSIVE Sha256_update(_, _)
RECURSIVE Sha256_blocks(_, _)
\* The state after the whole 64-byte blocks of a stream, and the bytes left.
Sha256_blocks(h, t) ==
    IF t.ok /\ Len(h) = 8 THEN Sha256_update(compress256(h, t.bytes), t.rest)
    ELSE [h |-> h, left |-> t.bytes]

Sha256_update(h, s) == Sha256_blocks(h, TakeBytes(s, 64))

Sha256_last(h, pad) ==
    IF Len(pad) = 64 THEN compress256(h, pad)
    ELSE compress256(compress256(h, SubSeq(pad, 1, 64)), SubSeq(pad, 65, 128))

\* The 32 bytes of a state, each word big-endian.
Sha256_bytes(h) ==
    [i \in 1..32 |->
        IF i % 4 = 1 THEN h[(i + 3) \div 4][2] \div 256
        ELSE IF i % 4 = 2 THEN h[(i + 3) \div 4][2] % 256
        ELSE IF i % 4 = 3 THEN h[(i + 3) \div 4][1] \div 256
        ELSE h[(i + 3) \div 4][1] % 256]

Sha256_finalize(u, len) == Sha256_bytes(Sha256_last(u.h, Padding(u.left, len)))

\* Sha256::digest, block by block
Sha256_compute(buf) == Sha256_finalize(Sha256_update(Sha256_H0, buf), BufLen(buf))

\* The long bodies that VersionInputs encodes to: the 80 bytes before the
\* user_agent, its CompactSize, a run of 'a', start_height and relay.
LongHead ==
    << 29, 152, 2, 0, 5, 0, 0, 0, 0, 0, 0, 128, 0, 16, 94, 95, 0, 0, 0, 0,
       1, 0, 0, 0, 0, 0, 0, 0, 0, 0, 0, 0, 0, 0, 0, 0, 0, 0, 255, 255, 127,
       0, 0, 1, 32, 41, 1, 0, 0, 0, 0, 0, 0, 0, 0, 0, 0, 0, 0, 0, 0, 0, 0,
       0, 255, 255, 10, 0, 0, 7, 32, 41, 52, 18, 120, 86, 188, 154, 240,
       222 >>

LongBody(size, n, relay) ==
    <<Chunk(LongHead \o size, 97, n), Chunk(<<1, 0, 2, 0, relay>>, 0, Zero64)>>

\* The SHA-256 digests of the long bodies: 1024 blocks and more each, up to
\* 2^26 blocks.
Sha256_known ==
    LongBody(<<253, 255, 255>>, <<65535, 0, 0, 0>>, 0) :>
        << 39, 126, 121, 59, 235, 220, 150, 99, 62, 33, 206, 206, 230, 55, 113,
           224, 37, 161, 203, 178, 132, 73, 234, 191, 61, 219, 66, 147, 44, 85,
           231, 71 >>
    @@
    LongBody(<<253, 255, 255>>, <<65535, 0, 0, 0>>, 1) :>
        << 227, 44, 7, 48, 20, 5, 85, 143, 95, 118, 43, 128, 253, 236, 182, 69,
           24, 206, 68, 241, 175, 57, 241, 32, 2, 113, 149, 16, 85, 52, 51, 175 >>
    @@
    LongBody(<<254, 0, 0, 1, 0>>, <<0, 1, 0, 0>>, 0) :>
        << 134, 16, 204, 164, 111, 189, 136, 66, 131, 127, 185, 243, 115, 153,
           35, 33, 231, 226, 52, 68, 171, 113, 95, 160, 44, 192, 219, 23, 224,
           46, 55, 66 >>
    @@
    LongBody(<<254, 0, 0, 1, 0>>, <<0, 1, 0, 0>>, 1) :>
        << 134, 126, 145, 248, 144, 99, 86, 140, 50, 142, 195, 194, 25, 184,
           245, 155, 2, 230, 21, 17, 28, 81, 114, 215, 24, 22, 122, 42, 209, 66,
           74, 223 >>
    @@
    LongBody(<<254, 1, 0, 1, 0>>, <<1, 1, 0, 0>>, 0) :>
        << 224, 213, 96, 61, 111, 44, 69, 19, 248, 95, 162, 209, 226, 249, 133,
           228, 197, 68, 151, 145, 109, 249, 116, 19, 220, 141, 184, 249, 180,
           104, 204, 217 >>
    @@
    LongBody(<<254, 1, 0, 1, 0>>, <<1, 1, 0, 0>>, 1) :>
        << 39, 42, 100, 189, 41, 19, 26, 49, 64, 136, 22, 108, 26, 29, 239, 234,
           194, 220, 59, 234, 163, 240, 113, 7, 198, 208, 112, 7, 214, 58, 218,
           103 >>
    @@
    LongBody(<<254, 165, 255, 255, 255>>, <<65445, 65535, 0, 0>>, 0) :>
        << 221, 163, 130, 243, 87, 90, 73, 215, 218, 43, 189, 0, 52, 192, 29,
           99, 19, 132, 136, 27, 188, 192, 104, 53, 109, 211, 126, 132, 155, 46,
           81, 227 >>
    @@
    LongBody(<<254, 165, 255, 255, 255>>, <<65445, 65535, 0, 0>>, 1) :>
        << 98, 149, 183, 119, 179, 127, 161, 9, 65, 121, 8, 191, 51, 73, 253,
           81, 107, 7, 70, 206, 125, 166, 96, 98, 183, 221, 103, 78, 208, 224,
           142, 229 >>
    @@
    LongBody(<<254, 166, 255, 255, 255>>, <<65446, 65535, 0, 0>>, 0) :>
        << 3, 162, 53, 7, 149, 36, 218, 111, 73, 104, 209, 77, 201, 15, 150, 85,
           180, 154, 5, 92, 169, 29, 80, 90, 6, 194, 110, 150, 146, 94, 141, 82 >>
    @@
    LongBody(<<254, 166, 255, 255, 255>>, <<65446, 65535, 0, 0>>, 1) :>
        << 28, 228, 34, 206, 245, 21, 76, 216, 12, 178, 17, 52, 132, 103, 220,
           210, 169, 174, 107, 210, 4, 165, 114, 161, 143, 147, 40, 198, 210,
           236, 144, 62 >>
    @@
    LongBody(<<254, 255, 255, 255, 255>>, <<65535, 65535, 0, 0>>, 0) :>
        << 8, 117, 101, 145, 173, 12, 82, 178, 220, 48, 160, 136, 228, 247, 171,
           105, 246, 32, 137, 15, 236, 52, 137, 159, 196, 207, 245, 225, 147,
           61, 50, 173 >>
    @@
    LongBody(<<254, 255, 255, 255, 255>>, <<65535, 65535, 0, 0>>, 1) :>
        << 9, 153, 185, 0, 224, 214, 13, 140, 215, 58, 231, 177, 118, 121, 87,
           176, 120, 228, 24, 13, 22, 144, 104, 28, 75, 170, 209, 95, 90, 148,
           203, 28 >>
    @@
    LongBody(<<255, 0, 0, 0, 0, 1, 0, 0, 0>>, <<0, 0, 1, 0>>, 0) :>
        << 104, 127, 6, 6, 205, 211, 182, 7, 123, 151, 148, 59, 230, 90, 74,
           183, 23, 244, 104, 244, 230, 74, 187, 213, 183, 3, 142, 182, 34, 178,
           212, 119 >>
    @@
    LongBody(<<255, 0, 0, 0, 0, 1, 0, 0, 0>>, <<0, 0, 1, 0>>, 1) :>
        << 255, 167, 163, 103, 13, 34, 50, 159, 27, 192, 141, 163, 30, 95, 73,
           95, 144, 36, 255, 191, 99, 227, 73, 54, 79, 56, 75, 12, 136, 174,
           174, 115 >>

\* Sha256::digest
Sha256_digest(buf) ==
    IF buf \in DOMAIN Sha256_known THEN Sha256_known[buf] ELSE Sha256_compute(buf)

\* checksum: the first 4 bytes of the digest of the digest
checksum(bytes) ==
    LET sha2 == Sha256_digest(bytes)
        sha2d == Sha256_digest(Bytes(sha2))
    IN  SubSeq(sha2d, 1, 4)

\* DateTime<Utc>: whole seconds since the epoch (an i64, two's complement)
\* and the nanoseconds within the second.
DateTime(secs, nanos) == [secs |-> secs, nanos |-> nanos]

\* DateTime::timestamp
timestamp(dt) == dt.secs

\* Signed comparison of two i64: compare with the sign bit flipped.
Bias(x) == [x EXCEPT ![4] = (x[4] + 32768) % Limb]
SLe(a, b) == NumLe(Bias(a), Bias(b))

\* NaiveDateTime::from_timestamp(secs, 0) is defined up to the end of the
\* year 262142 and as far back as the year -262143, that is for
\* -8334601228800 <= secs <= 8210266876799 (chrono 0.4.44), and panics
\* outside.
from_timestamp_ok(secs) ==
    /\ SLe(<<60928, 29453, 63595, 65535>>, secs)
    /\ SLe(secs, <<27519, 39434, 1911, 0>>)

\* Version::new; now is Utc::now() and nonce is rng.gen()
Version_new(addr_recv, addr_from, now, nonce) ==
    [version |-> U32(170013),
     services |-> U64(1),
     timestamp |-> now,
     addr_recv |-> <<U64(1), addr_recv>>,
     addr_from |-> <<U64(1), addr_from>>,
     nonce |-> nonce,
     user_agent |-> <<>>,
     start_height |-> U32(0),
     relay |-> FALSE]

\* Version::encode: the header and the body it writes to the stream.
Version_encode(m) ==
    LET h12 == magic \o command
        b1 == write_all(<<>>, to_le_bytes(m.version))
        b2 == write_all(b1, to_le_bytes(m.services))
        b3 == write_all(b2, to_le_bytes(timestamp(m.timestamp)))
        b4 == write_addr(b3, m.addr_recv)
        b5 == write_addr(b4, m.addr_from)
        b6 == write_all(b5, to_le_bytes(m.nonce))
        ws == write_string(b6, m.user_agent)
        b8 == write_all(ws.buf, to_le_bytes(m.start_height))
        body_buf == write_all(b8, <<IF m.relay THEN 1 ELSE 0>>)
        h16 == h12 \o to_le_bytes(Cast(NumAdd(U64(85), ws.len), 2))
        header_buf == h16 \o checksum(body_buf)
    IN  [header_buf |-> header_buf, body_buf |-> body_buf]

\* MessageHeader::from
MessageHeader_from(bytes) ==
    [magic |-> SubSeq(bytes, 1, 4),
     command |-> SubSeq(bytes, 5, 16),
     body_length |-> from_le_bytes(SubSeq(bytes, 17, 20)),
     checksum |-> from_le_bytes(SubSeq(bytes, 21, 24))]

\* What a decoder returns: Ok(val), Err(io error) or a panic of the task.
\* eof tells whether one of its reads came to the end of the bytes: on a
\* stream that has not ended that read waits instead.
Ok(v, rest) ==
    [kind |-> "Ok", val |-> <<v>>, why |-> "", rest |-> rest, eof |-> FALSE]
Err(rest) ==
    [kind |-> "Err", val |-> <<>>, why |-> "UnexpectedEof", rest |-> rest,
     eof |-> TRUE]
Panic(why, rest) ==
    [kind |-> "Panic", val |-> <<>>, why |-> why, rest |-> rest, eof |-> FALSE]

\* The process is gone (handle_alloc_error aborts); nothing is returned and
\* nothing more is read.
Abort(why) ==
    [kind |-> "Abort", val |-> <<>>, why |-> why, rest |-> <<>>, eof |-> FALSE]

\* decode_addr, from the third read_exact on: the port, then the address.
decode_addr_port(services, v6_addr, r3) ==
    IF ~r3.ok THEN Err(r3.rest)
    ELSE LET v4 == to_ipv4(v6_addr)
             ip_addr == IF v4 # <<>> THEN [tag |-> "V4", ip |-> v4[1]]
                        ELSE [tag |-> "V6", ip |-> v6_addr]
             port == to_be(from_le_bytes(r3.bytes))
         IN  Ok(<<services, SocketAddr_new(ip_addr, port)>>, r3.rest)

\* decode_addr, from the second read_exact on (`?` returns the error).
decode_addr_ip(services, r2) ==
    IF ~r2.ok THEN Err(r2.rest)
    ELSE decode_addr_port(services, r2.bytes, TakeBytes(r2.rest, 2))

decode_addr_services(r1) ==
    IF ~r1.ok THEN Err(r1.rest)
    ELSE decode_addr_ip(from_le_bytes(r1.bytes), TakeBytes(r1.rest, 16))

decode_addr(stream) == decode_addr_services(TakeBytes(stream, 8))

\* vec![0u8; len]: a panic with "capacity overflow" above isize::MAX bytes;
\* below, the allocator grants the bytes or the process is aborted
\* ("memory allocation of .. bytes failed").  Up to 2^32 bytes (the longest
\* string handed to encode) the allocation is taken to succeed on every
\* machine that runs the code; 2^47 bytes, the address space of a process,
\* and more never fit; in between it depends on the machine: grant.
vec(len, grant) ==
    IF len[4] >= 32768 THEN "capacity overflow"
    ELSE IF NumLe(len, <<0, 0, 1, 0>>) THEN "ok"
    ELSE IF NumLe(<<0, 0, 32768, 0>>, len) THEN "abort"
    ELSE IF grant THEN "ok" ELSE "abort"

\* decode_string, after the length: the Result of read_exact is dropped,
\* so the zeroed Vec is used however much of it the stream filled.
decode_string_buf(rd) ==
    IF ~from_utf8_ok(rd.buf)
    THEN [Panic("invalid utf-8", rd.rest) EXCEPT !.eof = ~rd.ok]
    ELSE [Ok(rd.buf, rd.rest) EXCEPT !.eof = ~rd.ok]

decode_string_body(len, stream, grant) ==
    IF vec(len, grant) = "capacity overflow"
    THEN Panic("capacity overflow", stream)
    ELSE IF vec(len, grant) = "abort" THEN Abort("memory allocation failed")
    ELSE decode_string_buf(ReadInto(stream, len))

\* the three wide arms of the match on flag
decode_string_wide(p, grant) ==
    IF ~p.ok THEN Err(p.rest)
    ELSE decode_string_body(Cast(from_le_bytes(p.bytes), 4), p.rest, grant)

decode_string_flag(f, grant) ==
    IF ~f.ok THEN Err(f.rest)
    ELSE IF f.bytes[1] <= 252
    THEN decode_string_body(U64(f.bytes[1]), f.rest, grant)
    ELSE IF f.bytes[1] = 253 THEN decode_string_wide(TakeBytes(f.rest, 2), grant)
    ELSE IF f.bytes[1] = 254 THEN decode_string_wide(TakeBytes(f.rest, 4), grant)
    ELSE decode_string_wide(TakeBytes(f.rest, 8), grant)

\* decode_string; grant is whether the machine grants an allocation that
\* not every machine grants.
decode_string(stream, grant) == decode_string_flag(TakeBytes(stream, 1), grant)

\* Version::decode, field by field.  m holds the fields read so far; a
\* failed read returns through `?`, a failed decode_addr/decode_string
\* returns its error or unwinds with its panic.
Version_decode_relay(m, r9) ==
    IF ~r9.ok THEN Err(r9.rest)
    ELSE Ok([m EXCEPT !.relay = r9.bytes[1] # 0], r9.rest)

Version_decode_start_height(m, r8) ==
    IF ~r8.ok THEN Err(r8.rest)
    ELSE Version_decode_relay([m EXCEPT !.start_height = from_le_bytes(r8.bytes)],
                              TakeBytes(r8.rest, 1))

Version_decode_user_agent(m, ua) ==
    IF ua.kind # "Ok" THEN ua
    ELSE Version_decode_start_height([m EXCEPT !.user_agent = ua.val[1]],
                                     TakeBytes(ua.rest, 4))

Version_decode_nonce(m, r6, grant) ==
    IF ~r6.ok THEN Err(r6.rest)
    ELSE Version_decode_user_agent([m EXCEPT !.nonce = from_le_bytes(r6.bytes)],
                                   decode_string(r6.rest, grant))

Version_decode_addr_from(m, a2, grant) ==
    IF a2.kind # "Ok" THEN a2
    ELSE Version_decode_nonce([m EXCEPT !.addr_from = a2.val[1]],
                              TakeBytes(a2.rest, 8), grant)

Version_decode_addr_recv(m, a1, grant) ==
    IF a1.kind # "Ok" THEN a1
    ELSE Version_decode_addr_from([m EXCEPT !.addr_recv = a1.val[1]],
                                  decode_addr(a1.rest), grant)

Version_decode_timestamp(m, r3, grant) ==
    IF ~r3.ok THEN Err(r3.rest)
    ELSE IF ~from_timestamp_ok(from_le_bytes(r3.bytes))
    THEN Panic("invalid or out-of-range datetime", r3.rest)
    ELSE Version_decode_addr_recv(
             [m EXCEPT !.timestamp = DateTime(from_le_bytes(r3.bytes), 0)],
             decode_addr(r3.rest), grant)

Version_decode_services(m, r2, grant) ==
    IF ~r2.ok THEN Err(r2.rest)
    ELSE Version_decode_timestamp([m EXCEPT !.services = from_le_bytes(r2.bytes)],
                                  TakeBytes(r2.rest, 8), grant)

Version_decode_version(r1, grant) ==
    IF ~r1.ok THEN Err(r1.rest)
    ELSE Version_decode_services(
             [version |-> from_le_bytes(r1.bytes), services |-> <<>>,
              timestamp |-> <<>>, addr_recv |-> <<>>, addr_from |-> <<>>,
              nonce |-> <<>>, user_agent |-> <<>>, start_height |-> <<>>,
              relay |-> FALSE],
             TakeBytes(r1.rest, 8), grant)

\* Version::decode; grant as for decode_string
Version_decode(stream, grant) ==
    Version_decode_version(TakeBytes(stream, 4), grant)

(***************************************************************************)
(* The state: of the codec at work, of the metrics recorder and of the     *)
(* ping-pong test.                                                         *)
(***************************************************************************)
VARIABLES
    cPhase,     \* where the writer is: "new", "writing" (encode is Pending
                \* in one of its two writes), "sent" (encode returned Ok),
                \* "failed" (encode returned Err)
    cMsg,       \* the Version handed to encode
    cBuf,       \* encode's header_buf followed by its body_buf
    cOut,       \* how many of these bytes the stream has taken (a usize)
    wire,       \* the bytes on the stream, not yet read
    closed,     \* whether the stream has ended behind these bytes
    cTamper,    \* what happened to the stream: "none", "corrupt" (a byte
                \* changed), "truncate" (it ended early)
    rPhase,     \* where the reader is: "idle", "header_read", "decoding"
                \* (Version::decode is Pending in one of its reads),
                \* "received" (it has returned), "dropped" (its future was
                \* dropped before it returned)
    cGot,       \* the bytes of the body read by Version::decode so far
    cHeader,    \* <<MessageHeader>> once read
    cResult     \* <<what Version::decode returned>> once it has

codecVars ==
    <<cPhase, cMsg, cBuf, cOut, wire, closed, cTamper, rPhase, cGot, cHeader,
      cResult>>

VARIABLES
    installed,    \* the process-wide recorder of the metrics crate: 0 for
                  \* none (writes go nowhere), else an index into registry
    registry,     \* the DebuggingRecorders created so far, installed or not
    handles,      \* the live SimpleRecorder values: each an index into registry
    lastRead,     \* <<the last call of counters() or histograms()>>: the
                  \* getter, the map it returned, and from the history at the
                  \* time: the names stale, the names registered, whether the
                  \* recorder read was made with one installed, the names of
                  \* the getter's kind written to since it was made
    keyState,     \* history, per metric name: "unused", "used", "stale" (used
                  \* before a clear() and not since registered and written),
                  \* "registered" (stale, and registered again)
    nWrites,      \* how many registrations and writes were made
    history       \* history: the names registered so far, and per recorder
                  \* made whether one was installed already when it was made
                  \* and the names written to, while one was installed, since

recorderVars ==
    <<installed, registry, handles, lastRead, keyState, nWrites, history>>

VARIABLES
    dPc,          \* where the driver is: "enable", "new_node", "start_node",
                  \* "clear", "register", "spawn", "join", "latencies",
                  \* "stop", "done", "panicked"
    synth_counts, \* the peer count of every round
    round,        \* the index of the current round in synth_counts
    spawned,      \* how many peers of this round were spawned
    joined,       \* how many of their handles were awaited to the end
    latencies,    \* <<what the driver read from the recorder this round>>
    table,        \* the rows added to the RequestsTable
    peer,         \* per peer: pc ("unspawned", "build", "connect", "send",
                  \* "recv", "done", "build_failed", "connect_failed",
                  \* "send_failed", "assert_failed"), the iterations
                  \* finished, the nonce of the Ping in flight
    toNode,       \* per peer, the frames on their way to the node
    toPeer,       \* per peer, the frames on their way from the node
    inbound,      \* per peer, the inbound queue of the synthetic node
    nodePings,    \* per peer, the Pings the node sent on its own
    completed     \* history: the round trips completed in this round

pingVars ==
    <<dPc, synth_counts, round, spawned, joined, latencies, table,
      peer, toNode, toPeer, inbound, nodePings, completed>>

vars == <<codecVars, recorderVars, pingVars>>

(***************************************************************************)
(* The codec at work: encode writes the header and then the body, in as    *)
(* many pieces as the stream takes them (either write may fail), the wire  *)
(* may damage the body (one byte changed, or the stream cut short), and    *)
(* meanwhile the receiver reads the 24-byte header and Version::decode     *)
(* reads the body as it arrives.                                           *)
(***************************************************************************)
\* 2^32 - 91, the longest user_agent whose body still counts below 2^32
\* (85 bytes of fixed fields and a 5-byte CompactSize prefix).
FitsU32 == <<65535 - 90, 65535, 0, 0>>

TimestampInputs ==
    {DateTime(U64(1600000000), 0), DateTime(U64(1600000000), 500000000)}

\* 127.0.0.1:8233, [2001:db8::1]:8233, [::1]:18233, [::ffff:10.0.0.7]:443
SocketAddrInputs ==
    { SocketAddrV4(<<127, 0, 0, 1>>, U16(8233)),
      SocketAddrV6(<<32, 1, 13, 184, 0, 0, 0, 0, 0, 0, 0, 0, 0, 0, 0, 1>>,
                   U16(8233), U32(0), U32(0)),
      SocketAddrV6(<<0, 0, 0, 0, 0, 0, 0, 0, 0, 0, 0, 0, 0, 0, 0, 1>>,
                   U16(18233), U32(0), U32(0)),
      SocketAddrV6(<<0, 0, 0, 0, 0, 0, 0, 0, 0, 0, 255, 255, 10, 0, 0, 7>>,
                   U16(443), U32(0), U32(0)) }

NonceInputs == {<<4660, 22136, 39612, 57072>>}

\* "", "/z:1/", "zé", "€uro", and runs of 'a' around every CompactSize
\* boundary and around the u32 boundary of body_length.
UserAgentInputs ==
    { <<>>,
      Bytes(<<47, 122, 58, 49, 47>>),
      Bytes(<<122, 195, 169>>),
      Bytes(<<226, 130, 172, 117, 114, 111>>) }
    \cup { Fill(97, n) : n \in { U64(1), U64(252), U64(253), U64(65535), U64(65536),
                                 U64(65537), FitsU32, NumAdd(FitsU32, One64),
                                 <<65535, 65535, 0, 0>>, <<0, 0, 1, 0>> } }

\* What Version::new builds locally, and what a peer may have sent: a
\* Version of the same shape with its own services, user_agent,
\* start_height and relay.
NewVersions ==
    { Version_new(r, f, t, n) :
        r \in SocketAddrInputs,
        f \in {a \in SocketAddrInputs : a.tag = "V4" \/ a.port = U16(18233)},
        t \in TimestampInputs,
        n \in NonceInputs }

PeerVersions ==
    { [Version_new(SocketAddrV4(<<127, 0, 0, 1>>, U16(8233)),
                   SocketAddrV4(<<10, 0, 0, 7>>, U16(8233)),
                   DateTime(U64(1600000000), 0), n)
         EXCEPT !.user_agent = ua, !.relay = rl,
                !.services = <<5, 0, 0, 32768>>, !.start_height = <<1, 2>>] :
        ua \in UserAgentInputs, rl \in BOOLEAN, n \in NonceInputs }

VersionInputs == NewVersions \cup PeerVersions

CodecInit ==
    /\ cPhase = "new"
    /\ cMsg \in VersionInputs
    /\ cBuf = <<>>
    /\ cOut = Zero64
    /\ wire = <<>>
    /\ closed = FALSE
    /\ cTamper = "none"
    /\ rPhase = "idle"
    /\ cGot = <<>>
    /\ cHeader = <<>>
    /\ cResult = <<>>

\* No codec at work (the state of the codec in the other specifications).
CodecIdle ==
    /\ cPhase = "idle"
    /\ cMsg = <<>>
    /\ cBuf = <<>>
    /\ cOut = Zero64
    /\ wire = <<>>
    /\ closed = FALSE
    /\ cTamper = "none"
    /\ rPhase = "idle"
    /\ cGot = <<>>
    /\ cHeader = <<>>
    /\ cResult = <<>>

\* The first n bytes of a buffer, the bytes from offset n on, and the bytes
\* from offset a up to offset n (offsets are usize).
Upto(buf, n) == ReadInto(buf, n).buf
From(buf, n) == ReadInto(buf, n).rest
Between(buf, a, n) == Upto(From(buf, a), NumSub(n, a))

\* The offsets in header_buf + body_buf at which the stream stops taking
\* bytes for a while (poll_write is not ready) or for good: inside the
\* header, between the two writes (24), inside the body, and 6 bytes before
\* the end.
StallInputs == {0, 1, 10, 23, 24, 25, 28, 34, 36, 44, 64, 105, 108, 109, 124, 224}

Stalls(buf) ==
    {n \in {U64(k) : k \in StallInputs} \cup {NumSub(BufLen(buf), U64(6))} :
        NumLt(n, BufLen(buf))}

\* The stream has taken the bytes of cBuf up to offset n.
Taken(buf, n) ==
    /\ cBuf' = buf
    /\ cOut' = n
    /\ wire' = Cat(wire, Between(buf, cOut, n))

\* The stream takes the bytes of the message up to one of the offsets at
\* which it stalls, or all of them.
Started(buf) ==
    \E n \in Stalls(buf) \cup {BufLen(buf)} :
       /\ Taken(buf, n)
       /\ cPhase' = IF n = BufLen(buf) THEN "sent" ELSE "writing"

\* header_buf followed by body_buf
Message(e) == Cat(Bytes(e.header_buf), e.body_buf)

\* One of the two write_all calls returns Err, after the stream took some
\* more bytes of the message or none, and `?` returns it from encode: a
\* part of the header is written (or nothing), or the header and a part of
\* the body.
Failed(buf) ==
    /\ \E n \in Stalls(buf) :
          /\ NumLe(cOut, n)
          /\ Taken(buf, n)
    /\ cPhase' = "failed"

\* The first poll of encode on the two buffers: Ok(()) or Pending, or Err.
FirstPoll(buf) == Started(buf) \/ Failed(buf)

\* Version::encode(&self, stream), polled for the first time: both buffers
\* are built and the stream takes their bytes up to some offset.  encode
\* returns Ok(()) when that is all of them, is Pending in
\* write_all(&header_buf) or write_all(&body_buf) when the stream takes no
\* more for now, and returns Err when a write fails.
Encode ==
    /\ cPhase = "new"
    /\ FirstPoll(Message(Version_encode(cMsg)))
    /\ UNCHANGED <<cMsg, closed, cTamper, rPhase, cGot, cHeader, cResult>>
    /\ UNCHANGED <<recorderVars, pingVars>>

\* encode is polled again: the stream takes more bytes.
EncodeResumed ==
    /\ cPhase = "writing"
    /\ \E n \in Stalls(cBuf) \cup {BufLen(cBuf)} :
          /\ NumLt(cOut, n)
          /\ Taken(cBuf, n)
          /\ cPhase' = IF n = BufLen(cBuf) THEN "sent" ELSE "writing"
    /\ UNCHANGED <<cMsg, closed, cTamper, rPhase, cGot, cHeader, cResult>>
    /\ UNCHANGED <<recorderVars, pingVars>>

\* write_all(..).await? returns Err from encode, in whichever poll the
\* write fails: the first, before anything was Pending, or a later one.
WriteFails ==
    /\ \/ cPhase = "new" /\ Failed(Message(Version_encode(cMsg)))
       \/ cPhase = "writing" /\ Failed(cBuf)
    /\ UNCHANGED <<cMsg, closed, cTamper, rPhase, cGot, cHeader, cResult>>
    /\ UNCHANGED <<recorderVars, pingVars>>

\* The owner of the TcpStream drops it once encode has returned: the stream
\* ends behind the bytes written, early if encode had failed.
Close ==
    /\ cPhase \in {"sent", "failed"}
    /\ ~closed
    /\ closed' = TRUE
    /\ cTamper' = IF cPhase = "failed" THEN "truncate" ELSE cTamper
    /\ UNCHANGED <<cPhase, cMsg, cBuf, cOut, wire, rPhase, cGot, cHeader, cResult>>
    /\ UNCHANGED <<recorderVars, pingVars>>

\* Offsets into a run at which a stream is cut or damaged (and its last byte).
RunInputs == {0, 15, 115}

RECURSIVE Positions(_, _)
\* The offsets of bytes of a buffer that starts at offset base: of every
\* explicit byte, and of the bytes of a run at RunInputs and at its end.
Positions(buf, base) ==
    IF buf = <<>> THEN {}
    ELSE {NumAdd(base, U64(j)) : j \in 0..(Len(Head(buf).bs) - 1)}
         \cup {NumAdd(NumAdd(base, U64(Len(Head(buf).bs))), r) :
                 r \in {q \in {U64(k) : k \in RunInputs}
                                \cup {NumSub(Head(buf).n, One64)} :
                           NumLt(q, Head(buf).n)}}
         \cup Positions(Tail(buf),
                        NumAdd(NumAdd(base, U64(Len(Head(buf).bs))), Head(buf).n))

\* The offsets of the body bytes on the wire (the whole message is on it).
BodyPositions == {n \in Positions(wire, Zero64) : NumLe(U64(24), n)}

\* The buffer with the byte at offset n changed by d, modulo 256.
Damaged(buf, n, d) ==
    Cat(Cat(Upto(buf, n), Bytes(<<(TakeBytes(From(buf, n), 1).bytes[1] + d) % 256>>)),
        From(buf, NumAdd(n, One64)))

\* The wire changes one body byte.
CorruptBody ==
    /\ cPhase = "sent" /\ cTamper = "none" /\ rPhase = "idle" /\ ~closed
    /\ \E n \in BodyPositions, d \in {1, 128} : wire' = Damaged(wire, n, d)
    /\ cTamper' = "corrupt"
    /\ UNCHANGED <<cPhase, cMsg, cBuf, cOut, closed, rPhase, cGot, cHeader, cResult>>
    /\ UNCHANGED <<recorderVars, pingVars>>

\* The stream ends early: the body byte at offset n and all after it are
\* lost.
Truncate ==
    /\ cPhase = "sent" /\ cTamper = "none" /\ rPhase = "idle" /\ ~closed
    /\ \E n \in BodyPositions : wire' = Upto(wire, n)
    /\ cTamper' = "truncate"
    /\ closed' = TRUE
    /\ UNCHANGED <<cPhase, cMsg, cBuf, cOut, rPhase, cGot, cHeader, cResult>>
    /\ UNCHANGED <<recorderVars, pingVars>>

\* The caller of decode reads the 24 bytes of the header into
\* MessageHeader::from once they are there; a stream that ends before them
\* is an error.
ReadHeader ==
    /\ rPhase = "idle"
    /\ cPhase # "new"
    /\ TakeBytes(wire, 24).ok \/ closed
    /\ LET h == TakeBytes(wire, 24)
       IN  /\ wire' = h.rest
           /\ IF h.ok
              THEN /\ rPhase' = "header_read"
                   /\ cHeader' = <<MessageHeader_from(h.bytes)>>
                   /\ UNCHANGED cResult
              ELSE /\ rPhase' = "received"
                   /\ cResult' = <<Err(h.rest)>>
                   /\ UNCHANGED cHeader
    /\ UNCHANGED <<cPhase, cMsg, cBuf, cOut, closed, cTamper, cGot>>
    /\ UNCHANGED <<recorderVars, pingVars>>

\* What a poll of Version::decode leaves, r being what decode makes of the
\* bytes s read so far and on the stream: it returns r, or one of its reads
\* has taken the last of s and waits for more (Pending).
Polled(s, r) ==
    IF r.eof /\ ~closed
    THEN /\ rPhase' = "decoding"
         /\ cGot' = s
         /\ wire' = <<>>
         /\ UNCHANGED cResult
    ELSE /\ rPhase' = "received"
         /\ cGot' = <<>>
         /\ wire' = r.rest
         /\ cResult' = <<r>>

\* Version::decode(stream) is polled: its reads take the bytes that have
\* arrived.  Each read waits until its bytes are there or the stream has
\* ended.  Whether the allocation is granted is decided once: an earlier
\* poll that left decode waiting has decided it.
Decode ==
    /\ rPhase \in {"header_read", "decoding"}
    /\ rPhase = "header_read" \/ wire # <<>> \/ closed
    /\ \E grant \in BOOLEAN :
          /\ Version_decode(cGot, grant).eof
          /\ Polled(Cat(cGot, wire), Version_decode(Cat(cGot, wire), grant))
    /\ UNCHANGED <<cPhase, cMsg, cBuf, cOut, closed, cTamper, cHeader>>
    /\ UNCHANGED <<recorderVars, pingVars>>

\* The future of Version::decode is dropped while it waits at a read: the
\* bytes it has taken are gone from the stream and nothing is returned.
DecodeDropped ==
    /\ rPhase = "decoding"
    /\ rPhase' = "dropped"
    /\ cGot' = <<>>
    /\ UNCHANGED <<cPhase, cMsg, cBuf, cOut, wire, closed, cTamper, cHeader,
                   cResult>>
    /\ UNCHANGED <<recorderVars, pingVars>>

(***************************************************************************)
(* src/tools/metrics/recorder.rs, and the parts of the metrics and         *)
(* metrics-util crates it calls.                                           *)
(*                                                                         *)
(* A DebuggingRecorder is a registry: the composite keys it has seen, a    *)
(* u64 per counter key and the f64 samples per histogram key.  A sample is *)
(* kept in halves (3 is 1.5); a histogram::Histogram is the bag of the u64 *)
(* values it was incremented with.                                         *)
(***************************************************************************)
\* const METRIC_LATENCY: &str = "ping_perf_latency";
METRIC_LATENCY == "ping_perf_latency"

\* The most recorders created in one run, and the most writes.
MaxRecorders == 2
MaxWrites == 3

CounterNames == {"pings_sent"}
HistogramNames == {METRIC_LATENCY}

\* 0.5, 1.5 and 2.0, in halves
SampleInputs == {1, 3, 4}

\* DebuggingRecorder::new
DebuggingRecorder_new == [seen |-> {}, counters |-> <<>>, histograms |-> <<>>]

\* Recorder::register_counter: get or create the counter
register_counter(g, k) ==
    [g EXCEPT !.seen = @ \cup {<<"Counter", k>>},
              !.counters = IF k \in DOMAIN @ THEN @ ELSE (k :> 0) @@ @]

\* Recorder::register_histogram: get or create the histogram
register_histogram(g, k) ==
    [g EXCEPT !.seen = @ \cup {<<"Histogram", k>>},
              !.histograms = IF k \in DOMAIN @ THEN @ ELSE (k :> <<>>) @@ @]

\* Counter::increment on the handle register_counter returns
increment_counter(g, k, v) ==
    [register_counter(g, k) EXCEPT !.counters[k] = @ + v]

\* Histogram::record on the handle register_histogram returns
record_histogram(g, k, v) ==
    [register_histogram(g, k) EXCEPT !.histograms[k] = Append(@, v)]

\* Snapshotter::snapshot().into_hashmap(): a value per key seen.  Counters
\* are loaded; histogram buckets are emptied into the snapshot (clear_with).
Snapshotter_snapshot(g) ==
    [ck \in g.seen |-> IF ck[1] = "Counter" THEN g.counters[ck[2]]
                       ELSE g.histograms[ck[2]]]

\* the registry after a snapshot was taken
Snapshotter_drained(g) ==
    [g EXCEPT !.histograms = [k \in DOMAIN @ |-> <<>>]]

\* f64::round (half away from zero), then `as u64` (which takes a negative
\* value to 0), of a sample in halves
round_as_u64(v) == IF v <= 0 THEN 0 ELSE (v + 1) \div 2

\* A conversion that marks the buckets hit instead of counting the values:
\* a wrong conversion, kept to show that the sample count of a snapshot
\* rests on the one increment per value.
create_histogram_marked(values) ==
    SetToBag({round_as_u64(values[i]) : i \in DOMAIN values})

RECURSIVE create_histogram(_)
\* create_histogram: one increment per value.  increment(..).unwrap() panics
\* on a value above the largest the Histogram takes, which no sample of
\* SampleInputs or LatencyInputs comes near.
create_histogram(values) ==
    IF values = <<>> THEN EmptyBag
    ELSE create_histogram(Tail(values)) (+) SetToBag({round_as_u64(Head(values))})

\* Histogram::entries: the number of samples
entries(histogram) == BagCardinality(histogram)

\* The names of a given kind in a snapshot.
KeysOf(snapshot, kind) == {ck[2] : ck \in {c \in DOMAIN snapshot : c[1] = kind}}

\* SimpleRecorder::counters on a snapshot
counters(snapshot) ==
    [k \in KeysOf(snapshot, "Counter") |-> snapshot[<<"Counter", k>>]]

\* SimpleRecorder::histograms on a snapshot
histograms(snapshot) ==
    [k \in KeysOf(snapshot, "Histogram") |->
        create_histogram(snapshot[<<"Histogram", k>>])]

MetricNames == CounterNames \cup HistogramNames

RecorderInit ==
    /\ installed = 0
    /\ registry = <<>>
    /\ handles = {}
    /\ lastRead = <<>>
    /\ keyState = [k \in MetricNames |-> "unused"]
    /\ nWrites = 0
    /\ history = [registered |-> {}, returned |-> <<>>]

\* What metrics::try_recorder() hands to a macro: the installed recorder,
\* or nothing to write to (a recorder whose writes are lost).
try_recorder == IF installed = 0 THEN DebuggingRecorder_new ELSE registry[installed]

\* The registries once the recorder try_recorder() gave has become g: the
\* macros of the metrics crate do nothing when no recorder is installed.
WithRecorder(g) ==
    IF installed = 0 THEN registry ELSE [registry EXCEPT ![installed] = g]

Registered(k) ==
    [keyState EXCEPT ![k] = IF @ = "stale" THEN "registered"
                            ELSE IF @ = "unused" THEN "used" ELSE @]

Written(k) ==
    [keyState EXCEPT ![k] = IF @ = "stale" THEN "stale" ELSE "used"]

Cleared == [k \in MetricNames |-> IF keyState[k] = "unused" THEN "unused" ELSE "stale"]

StaleNames == {k \in MetricNames : keyState[k] = "stale"}

\* The history once a recorder was made.
Returned ==
    [history EXCEPT !.returned =
        Append(@, [already |-> installed # 0, since |-> {}])]

\* The history once a name was registered.
NowRegistered(k) == [history EXCEPT !.registered = @ \cup {k}]

\* The history once a name was written to: a write made while a recorder is
\* installed counts for every recorder made before it.
NowWritten(k) ==
    IF installed = 0 THEN history
    ELSE [history EXCEPT !.returned =
             [h \in DOMAIN @ |-> [@[h] EXCEPT !.since = @ \cup {k}]]]

\* SimpleRecorder::default: a new DebuggingRecorder, installed unless one
\* is installed already (the error of install() is let through).
SimpleRecorder_default ==
    /\ Len(registry) < MaxRecorders
    /\ registry' = Append(registry, DebuggingRecorder_new)
    /\ installed' = IF installed = 0 THEN Len(registry) + 1 ELSE installed
    /\ handles' = handles \cup {Len(registry) + 1}
    /\ history' = Returned
    /\ UNCHANGED <<lastRead, keyState, nWrites>>

\* metrics::register_counter!(k)
metrics_register_counter(k) ==
    /\ registry' = WithRecorder(register_counter(try_recorder, k))
    /\ keyState' = Registered(k)
    /\ history' = NowRegistered(k)

\* metrics::register_histogram!(k)
metrics_register_histogram(k) ==
    /\ registry' = WithRecorder(register_histogram(try_recorder, k))
    /\ keyState' = Registered(k)
    /\ history' = NowRegistered(k)

\* metrics::counter!(k, v)
metrics_counter(k, v) ==
    /\ registry' = WithRecorder(increment_counter(try_recorder, k, v))
    /\ keyState' = Written(k)
    /\ history' = NowWritten(k)

\* metrics::histogram!(k, v)
metrics_histogram(k, v) ==
    /\ registry' = WithRecorder(record_histogram(try_recorder, k, v))
    /\ keyState' = Written(k)
    /\ history' = NowWritten(k)

\* metrics::clear_recorder: the global recorder is unset; the recorder that
\* was installed is leaked, its registry untouched.
metrics_clear_recorder == installed' = 0 /\ UNCHANGED history

\* SimpleRecorder::counters(&self)
SimpleRecorder_counters(h) ==
    /\ lastRead' = <<[getter |-> "counters",
                      map |-> counters(Snapshotter_snapshot(registry[h])),
                      stale |-> StaleNames,
                      registered |-> history.registered,
                      already |-> history.returned[h].already,
                      since |-> history.returned[h].since \cap CounterNames]>>
    /\ registry' = [registry EXCEPT ![h] = Snapshotter_drained(@)]
    /\ UNCHANGED history

\* SimpleRecorder::histograms(&self)
SimpleRecorder_histograms(h) ==
    /\ lastRead' = <<[getter |-> "histograms",
                      map |-> histograms(Snapshotter_snapshot(registry[h])),
                      stale |-> StaleNames,
                      registered |-> history.registered,
                      already |-> history.returned[h].already,
                      since |-> history.returned[h].since \cap HistogramNames]>>
    /\ registry' = [registry EXCEPT ![h] = Snapshotter_drained(@)]
    /\ UNCHANGED history

\* SimpleRecorder::clear(&self)
SimpleRecorder_clear(h) ==
    /\ metrics_clear_recorder
    /\ keyState' = Cleared

\* Some task registers a metric.
Register ==
    /\ nWrites < MaxWrites
    /\ nWrites' = nWrites + 1
    /\ \/ \E k \in CounterNames : metrics_register_counter(k)
       \/ \E k \in HistogramNames : metrics_register_histogram(k)
    /\ UNCHANGED <<installed, handles, lastRead>>
    /\ UNCHANGED <<codecVars, pingVars>>

\* Some task writes to a metric.
Write ==
    /\ nWrites < MaxWrites
    /\ nWrites' = nWrites + 1
    /\ \/ \E k \in CounterNames : metrics_counter(k, 1)
       \/ \E k \in HistogramNames, v \in SampleInputs : metrics_histogram(k, v)
    /\ UNCHANGED <<installed, handles, lastRead>>
    /\ UNCHANGED <<codecVars, pingVars>>

\* The holder of a SimpleRecorder reads the counters or the histograms.
Read ==
    /\ \E h \in handles : SimpleRecorder_counters(h) \/ SimpleRecorder_histograms(h)
    /\ UNCHANGED <<installed, handles, keyState, nWrites>>
    /\ UNCHANGED <<codecVars, pingVars>>

\* The holder of a SimpleRecorder clears it.
Clear ==
    /\ \E h \in handles : SimpleRecorder_clear(h)
    /\ UNCHANGED <<registry, handles, lastRead, nWrites>>
    /\ UNCHANGED <<codecVars, pingVars>>

\* Drop for SimpleRecorder
Drop ==
    /\ \E h \in handles :
          /\ metrics_clear_recorder
          /\ handles' = handles \ {h}
    /\ UNCHANGED <<registry, lastRead, keyState, nWrites>>
    /\ UNCHANGED <<codecVars, pingVars>>

(***************************************************************************)
(* src/tests/performance/ping_pong.rs: the throughput test and its peers.  *)
(*                                                                         *)
(* The test is the driver; every spawned simulate_peer is a task of its    *)
(* own.  SyntheticNode and the node under test are not part of these       *)
(* sources: they follow sections 4.2 and 5 of the specification.  A peer's *)
(* connection is a pair of byte streams, each message on them one frame;   *)
(* the connection's read task auto-replies to a Ping in place and enqueues  *)
(* every other message for recv_message_timeout.                           *)
(***************************************************************************)
\* The iterations of a peer in this model.
MaxPings == 2

\* const PINGS: u16 = 1000, scaled down to MaxPings.
PINGS == MaxPings

\* The most Pings the node under test sends a peer on its own.
MaxNodePings == 1

\* Nonce::default() draws a random nonce.
Nonces == {1, 2}

\* The nonce of a Ping the node under test sends on its own: the peer
\* echoes it and compares it with nothing.
NodeNonces == {3}

Ping(n) == [kind |-> "Ping", nonce |-> n]
Pong(n) == [kind |-> "Pong", nonce |-> n]

\* The tasks a round can spawn: a round has one peer or two (synth_counts
\* goes from 1 up to 800).
Peers == {1, 2}

\* let synth_counts = vec![1, 10, 20, ..., 800]: two rounds of small counts,
\* in either order
SynthCountInputs == {<<1, 2>>, <<2, 1>>}

\* duration_as_ms(now.elapsed()) of a round trip: 1.5, in halves.  The test
\* looks at how many samples a round leaves, so every round trip is given
\* the same latency and all samples fall into one bucket.
LatencyInputs == {3}

\* One round of two peers: the round in which the progress of the peer
\* tasks is followed.
OneRound == <<2>>

Unspawned == [pc |-> "unspawned", i |-> 0, nonce |-> 0, sent |-> 0]
NoFrames == [p \in Peers |-> <<>>]

PingPongStart(counts) ==
    /\ dPc = "enable"
    /\ synth_counts = counts
    /\ round = 1
    /\ spawned = 0
    /\ joined = 0
    /\ latencies = <<>>
    /\ table = <<>>
    /\ peer = [p \in Peers |-> Unspawned]
    /\ toNode = NoFrames
    /\ toPeer = NoFrames
    /\ inbound = NoFrames
    /\ nodePings = [p \in Peers |-> 0]
    /\ completed = 0

PingPongInit == \E counts \in SynthCountInputs : PingPongStart(counts)

\* No test running (the state of the test in the other specifications).
PingPongIdle ==
    /\ dPc = "idle"
    /\ synth_counts = <<>>
    /\ round = 0
    /\ spawned = 0
    /\ joined = 0
    /\ latencies = <<>>
    /\ table = <<>>
    /\ peer = [p \in Peers |-> Unspawned]
    /\ toNode = NoFrames
    /\ toPeer = NoFrames
    /\ inbound = NoFrames
    /\ nodePings = [p \in Peers |-> 0]
    /\ completed = 0

\* The recorder module the test calls (enable_simple_recorder,
\* recorder::clear, recorder::histograms) is not part of these sources; the
\* three functions follow section 4.3 of the specification.
\* install(): the registry of the process-wide recorder once it is installed.
enable_simple_recorder == <<DebuggingRecorder_new>>

\* clear(): resets all registered series; a snapshot has no entry for a
\* name used before.  The recorder stays installed.
recorder_clear(g) == DebuggingRecorder_new

\* histograms(): the snapshot of the histograms, the samples in
\* integer-bucketed form (create_histogram); the series keep their samples.
recorder_histograms(g) == histograms(Snapshotter_snapshot(g))

\* enable_simple_recorder().unwrap(): the recorder is installed and the
\* value returned is not kept, or unwrap() panics on Err.
EnableRecorder ==
    /\ dPc = "enable"
    /\ \E ok \in BOOLEAN :
          IF ok
          THEN /\ registry' = enable_simple_recorder
               /\ installed' = 1
               /\ dPc' = "new_node"
          ELSE /\ dPc' = "panicked"
               /\ UNCHANGED <<registry, installed>>
    /\ UNCHANGED <<synth_counts, round, spawned, joined, latencies, table,
                   peer, toNode, toPeer, inbound, nodePings, completed>>
    /\ UNCHANGED <<handles, lastRead, keyState, nWrites, history>>
    /\ UNCHANGED codecVars

\* let mut node = Node::new().unwrap()
NewNode ==
    /\ dPc = "new_node"
    /\ \E ok \in BOOLEAN : dPc' = IF ok THEN "start_node" ELSE "panicked"
    /\ UNCHANGED <<synth_counts, round, spawned, joined, latencies, table,
                   peer, toNode, toPeer, inbound, nodePings, completed>>
    /\ UNCHANGED recorderVars
    /\ UNCHANGED codecVars

\* node.initial_action(..).max_peers(..).start().await.unwrap()
StartNode ==
    /\ dPc = "start_node"
    /\ \E ok \in BOOLEAN : dPc' = IF ok THEN "clear" ELSE "panicked"
    /\ UNCHANGED <<synth_counts, round, spawned, joined, latencies, table,
                   peer, toNode, toPeer, inbound, nodePings, completed>>
    /\ UNCHANGED recorderVars
    /\ UNCHANGED codecVars

\* recorder::clear() at the head of a round
RoundClear ==
    /\ dPc = "clear"
    /\ registry' = [registry EXCEPT ![installed] = recorder_clear(@)]
    /\ keyState' = Cleared
    /\ dPc' = "register"
    /\ latencies' = <<>>
    /\ completed' = 0
    /\ UNCHANGED <<synth_counts, round, spawned, joined, table,
                   peer, toNode, toPeer, inbound, nodePings>>
    /\ UNCHANGED <<installed, handles, lastRead, nWrites, history>>
    /\ UNCHANGED codecVars

\* metrics::register_histogram!(METRIC_LATENCY)
RoundRegister ==
    /\ dPc = "register"
    /\ metrics_register_histogram(METRIC_LATENCY)
    /\ dPc' = "spawn"
    /\ UNCHANGED <<synth_counts, round, spawned, joined, latencies, table,
                   peer, toNode, toPeer, inbound, nodePings, completed>>
    /\ UNCHANGED <<installed, handles, lastRead, nWrites>>
    /\ UNCHANGED codecVars

\* synth_handles.push(tokio::spawn(simulate_peer(node_addr)))
Spawn ==
    /\ dPc = "spawn"
    /\ spawned' = spawned + 1
    /\ peer' = [peer EXCEPT ![spawned + 1].pc = "build"]
    /\ dPc' = IF spawned + 1 = synth_counts[round] THEN "join" ELSE "spawn"
    /\ UNCHANGED <<synth_counts, round, joined, latencies, table,
                   toNode, toPeer, inbound, nodePings, completed>>
    /\ UNCHANGED recorderVars
    /\ UNCHANGED codecVars

\* The task of simulate_peer was spawned and has not ended.
Running(p) == peer[p].pc \in {"build", "connect", "send", "recv"}

\* The task has returned or panicked.
Ended(p) ==
    peer[p].pc \in {"done", "build_failed", "connect_failed", "send_failed",
                    "assert_failed"}

\* The handles are dropped instead of awaited: a wrong driver, kept to show
\* that the order of the phases rests on handle.await.
Join_detached ==
    /\ dPc = "join"
    /\ joined' = joined + 1
    /\ dPc' = IF joined + 1 = synth_counts[round] THEN "latencies" ELSE "join"
    /\ UNCHANGED <<synth_counts, round, spawned, latencies, table,
                   peer, toNode, toPeer, inbound, nodePings, completed>>
    /\ UNCHANGED recorderVars
    /\ UNCHANGED codecVars

\* let _ = handle.await: the next handle's task has ended, however it did
Join ==
    /\ dPc = "join"
    /\ Ended(joined + 1)
    /\ joined' = joined + 1
    /\ dPc' = IF joined + 1 = synth_counts[round] THEN "latencies" ELSE "join"
    /\ UNCHANGED <<synth_counts, round, spawned, latencies, table,
                   peer, toNode, toPeer, inbound, nodePings, completed>>
    /\ UNCHANGED recorderVars
    /\ UNCHANGED codecVars

\* recorder::histograms().lock().get(&Key::from_name(METRIC_LATENCY))
\* .unwrap().value.clone(), table.add_row(..), and the next round.
\* unwrap() panics when the name is not there.
Latencies ==
    /\ dPc = "latencies"
    /\ LET map == recorder_histograms(registry[installed])
           found == METRIC_LATENCY \in DOMAIN map
           last == round = Len(synth_counts)
       IN  /\ latencies' = <<[found |-> found,
                              value |-> IF found THEN map[METRIC_LATENCY]
                                        ELSE EmptyBag]>>
           /\ dPc' = IF ~found THEN "panicked"
                     ELSE IF last THEN "stop" ELSE "clear"
           /\ table' = IF found
                       THEN Append(table, [synth_count |-> synth_counts[round],
                                           requests |-> PINGS,
                                           latencies |-> map[METRIC_LATENCY]])
                       ELSE table
           /\ round' = IF found /\ ~last THEN round + 1 ELSE round
    /\ spawned' = 0
    /\ joined' = 0
    /\ peer' = [p \in Peers |-> Unspawned]
    /\ nodePings' = [p \in Peers |-> 0]
    /\ UNCHANGED <<synth_counts, toNode, toPeer, inbound, completed>>
    /\ UNCHANGED recorderVars
    /\ UNCHANGED codecVars

\* node.stop().unwrap(), after the last round; the table is printed.
StopNode ==
    /\ dPc = "stop"
    /\ \E ok \in BOOLEAN : dPc' = IF ok THEN "done" ELSE "panicked"
    /\ UNCHANGED <<synth_counts, round, spawned, joined, latencies, table,
                   peer, toNode, toPeer, inbound, nodePings, completed>>
    /\ UNCHANGED recorderVars
    /\ UNCHANGED codecVars

\* What is left of a peer's connection once its task has ended.
Closed(frames, p) == [frames EXCEPT ![p] = <<>>]

\* SyntheticNode::builder() ... .build().await.unwrap(): the node is
\* built, or unwrap() panics.
PeerBuild(p) ==
    /\ peer[p].pc = "build"
    /\ \E ok \in BOOLEAN :
          peer' = [peer EXCEPT ![p].pc = IF ok THEN "connect" ELSE "build_failed"]
    /\ UNCHANGED <<dPc, synth_counts, round, spawned, joined, latencies, table,
                   toNode, toPeer, inbound, nodePings, completed>>
    /\ UNCHANGED recorderVars
    /\ UNCHANGED codecVars

\* synth_node.connect(node_addr).await.unwrap(): the handshake completes,
\* or it fails and unwrap() panics.
PeerConnect(p) ==
    /\ peer[p].pc = "connect"
    /\ \E ok \in BOOLEAN :
          peer' = [peer EXCEPT ![p].pc = IF ok THEN "send" ELSE "connect_failed"]
    /\ UNCHANGED <<dPc, synth_counts, round, spawned, joined, latencies, table,
                   toNode, toPeer, inbound, nodePings, completed>>
    /\ UNCHANGED recorderVars
    /\ UNCHANGED codecVars

\* let nonce = Nonce::default(); send_direct_message(node_addr, Ping(nonce))
\* .unwrap(): the Ping is sent, or the send fails (the node has closed the
\* connection, say) and unwrap() panics.
PeerSend(p) ==
    /\ peer[p].pc = "send"
    /\ \/ \E n \in Nonces :
             /\ peer' = [peer EXCEPT ![p].pc = "recv", ![p].nonce = n,
                                     ![p].sent = @ + 1]
             /\ toNode' = [toNode EXCEPT ![p] = Append(@, Ping(n))]
             /\ UNCHANGED <<toPeer, inbound>>
       \/ /\ peer' = [peer EXCEPT ![p].pc = "send_failed"]
          /\ toNode' = Closed(toNode, p)
          /\ toPeer' = Closed(toPeer, p)
          /\ inbound' = Closed(inbound, p)
    /\ UNCHANGED <<dPc, synth_counts, round, spawned, joined, latencies, table,
                   nodePings, completed>>
    /\ UNCHANGED recorderVars
    /\ UNCHANGED codecVars

\* A loop of one iteration too many (0..=PINGS): a wrong peer, kept to show
\* that the bound on the Pings of a peer rests on the range of the loop.
NextIteration_one_more(i) == IF i = PINGS THEN "done" ELSE "send"

\* Where the for loop goes after iteration i (counted from 0) ended.
NextIteration(i) == IF i + 1 = PINGS THEN "done" ELSE "send"

\* recv_message_timeout returned Ok((_, reply)): assert_eq!(reply, expected),
\* then metrics::histogram!(METRIC_LATENCY, duration_as_ms(now.elapsed())).
PeerReply(p) ==
    /\ peer[p].pc = "recv"
    /\ inbound[p] # <<>>
    /\ LET reply == Head(inbound[p])
           expected == Pong(peer[p].nonce)
       IN  IF reply = expected
           THEN /\ \E ms \in LatencyInputs : metrics_histogram(METRIC_LATENCY, ms)
                /\ completed' = completed + 1
                /\ peer' = [peer EXCEPT ![p].pc = NextIteration(peer[p].i),
                                        ![p].i = @ + 1]
                /\ IF NextIteration(peer[p].i) = "done"
                   THEN /\ inbound' = Closed(inbound, p)
                        /\ toNode' = Closed(toNode, p)
                        /\ toPeer' = Closed(toPeer, p)
                   ELSE /\ inbound' = [inbound EXCEPT ![p] = Tail(@)]
                        /\ UNCHANGED <<toNode, toPeer>>
           ELSE /\ peer' = [peer EXCEPT ![p].pc = "assert_failed"]
                /\ inbound' = Closed(inbound, p)
                /\ toNode' = Closed(toNode, p)
                /\ toPeer' = Closed(toPeer, p)
                /\ UNCHANGED <<registry, keyState, history, completed>>
    /\ UNCHANGED <<dPc, synth_counts, round, spawned, joined, latencies, table,
                   nodePings>>
    /\ UNCHANGED <<installed, handles, lastRead, nWrites>>
    /\ UNCHANGED codecVars

\* recv_message_timeout returned Err(_timeout): break.  The 5 seconds may
\* pass whenever the inbound queue is empty.
PeerTimeout(p) ==
    /\ peer[p].pc = "recv"
    /\ inbound[p] = <<>>
    /\ peer' = [peer EXCEPT ![p].pc = "done"]
    /\ toNode' = Closed(toNode, p)
    /\ toPeer' = Closed(toPeer, p)
    /\ UNCHANGED <<dPc, synth_counts, round, spawned, joined, latencies, table,
                   inbound, nodePings, completed>>
    /\ UNCHANGED recorderVars
    /\ UNCHANGED codecVars

Connected(p) == peer[p].pc \in {"send", "recv"}

\* The read task of the peer's connection takes the next frame.  With
\* auto-reply "all" a Ping is answered at once with Pong of the same nonce
\* on the same connection; every message, an answered Ping too, is enqueued
\* for recv_message_timeout (section 4.2 of the specification: the
\* configuration has no option per message kind that says otherwise).
ReadTask(p) ==
    /\ Connected(p)
    /\ toPeer[p] # <<>>
    /\ toPeer' = [toPeer EXCEPT ![p] = Tail(@)]
    /\ LET m == Head(toPeer[p])
       IN  /\ inbound' = [inbound EXCEPT ![p] = Append(@, m)]
           /\ toNode' = IF m.kind = "Ping"
                        THEN [toNode EXCEPT ![p] = Append(@, Pong(m.nonce))]
                        ELSE toNode
    /\ UNCHANGED <<dPc, synth_counts, round, spawned, joined, latencies, table,
                   peer, nodePings, completed>>
    /\ UNCHANGED recorderVars
    /\ UNCHANGED codecVars

\* The node under test takes the next frame of a connection: it answers a
\* Ping with Pong of the same nonce and takes note of a Pong.
NodeReceive(p) ==
    /\ Connected(p)
    /\ toNode[p] # <<>>
    /\ toNode' = [toNode EXCEPT ![p] = Tail(@)]
    /\ LET m == Head(toNode[p])
       IN  toPeer' = IF m.kind = "Ping"
                     THEN [toPeer EXCEPT ![p] = Append(@, Pong(m.nonce))]
                     ELSE toPeer
    /\ UNCHANGED <<dPc, synth_counts, round, spawned, joined, latencies, table,
                   peer, inbound, nodePings, completed>>
    /\ UNCHANGED recorderVars
    /\ UNCHANGED codecVars

\* The node under test pings a peer on its own.
NodePing(p) ==
    /\ Connected(p)
    /\ nodePings[p] < MaxNodePings
    /\ nodePings' = [nodePings EXCEPT ![p] = @ + 1]
    /\ \E n \in NodeNonces :
          toPeer' = [toPeer EXCEPT ![p] = Append(@, Ping(n))]
    /\ UNCHANGED <<dPc, synth_counts, round, spawned, joined, latencies, table,
                   peer, toNode, inbound, completed>>
    /\ UNCHANGED recorderVars
    /\ UNCHANGED codecVars

(***************************************************************************)
(* The specifications: the codec, the recorder and the test, each with the *)
(* other two at rest.                                                      *)
(***************************************************************************)
CodecNext ==
    \/ Encode \/ EncodeResumed \/ WriteFails \/ Close
    \/ CorruptBody \/ Truncate
    \/ ReadHeader \/ Decode \/ DecodeDropped

InitCodec == CodecInit /\ RecorderInit /\ PingPongIdle

SpecCodec == InitCodec /\ [][CodecNext]_vars

\* Some task makes a SimpleRecorder.
NewRecorder == SimpleRecorder_default /\ UNCHANGED <<codecVars, pingVars>>

RecorderNext == NewRecorder \/ Register \/ Write \/ Read \/ Clear \/ Drop

InitRecorder == CodecIdle /\ RecorderInit /\ PingPongIdle

SpecRecorder == InitRecorder /\ [][RecorderNext]_vars

PingPongNext ==
    \/ EnableRecorder \/ NewNode \/ StartNode \/ RoundClear \/ RoundRegister
    \/ Spawn \/ Join \/ Latencies \/ StopNode
    \/ \E p \in Peers :
          \/ PeerBuild(p) \/ PeerConnect(p) \/ PeerSend(p)
          \/ PeerReply(p) \/ PeerTimeout(p)
          \/ ReadTask(p) \/ NodeReceive(p) \/ NodePing(p)

InitPingPong == CodecIdle /\ RecorderInit /\ PingPongInit

SpecPingPong == InitPingPong /\ [][PingPongNext]_vars

\* A spawned task is polled until it ends: tokio runs every task that can
\* make progress, and the timer of recv_message_timeout fires after 5 s.
PeerStep(p) ==
    PeerBuild(p) \/ PeerConnect(p) \/ PeerSend(p) \/ PeerReply(p) \/ PeerTimeout(p)

PeerFairness == \A p \in Peers : WF_vars(PeerStep(p))

InitPingPongFair == CodecIdle /\ RecorderInit /\ PingPongStart(OneRound)

SpecPingPongFair ==
    InitPingPongFair /\ [][PingPongNext]_vars /\ PeerFairness

(***************************************************************************)
(* Properties of the codec.                                                *)
(***************************************************************************)
\* The whole message is on the stream, untouched and unread; decode has
\* returned.
Sent == cPhase = "sent" /\ cTamper = "none" /\ rPhase = "idle"
Received == rPhase = "received"
Result == cResult[1]

\* The stream from body offset 80 on: the user_agent field and what follows.
UserAgentOnWire == TakeBytes(wire, 24 + 80).rest

\* C1: round trip.  Decoding the untouched encoding of m returns Ok(m),
\* every field equal to the field of m.
C1_RoundTrip ==
    (Received /\ cTamper = "none") =>
        (Result.kind = "Ok" /\ Result.val[1] = cMsg)

\* C1: a message with addr_recv [::1]:18233 has come back with an IPv4
\* address in addr_recv.
C1_Diverges ==
    /\ Received /\ cTamper = "none"
    /\ cMsg.addr_recv[2].tag = "V6"
    /\ Result.kind = "Ok"
    /\ Result.val[1].addr_recv[2].tag = "V4"

\* C2: checksum integrity.  After one body byte was changed decoding reports
\* a checksum mismatch; the untouched encoding decodes, and the checksum of
\* its body is the header's checksum field.
C2_ChecksumIntegrity ==
    /\ (Sent =>
          cHeader = <<>> /\
          MessageHeader_from(TakeBytes(wire, 24).bytes).checksum
              = from_le_bytes(checksum(TakeBytes(wire, 24).rest)))
    /\ (Received /\ cTamper = "none" => Result.kind = "Ok")
    /\ (Received /\ cTamper = "corrupt" =>
          Result.kind = "Err" /\ Result.why = "checksum mismatch")

\* C2: a body with one byte changed has been decoded into a message.
C2_CorruptAccepted ==
    Received /\ cTamper = "corrupt" /\ Result.kind = "Ok"

\* C3: invalid UTF-8 in the user_agent is returned as a decode error;
\* decoding never panics on it.
C3_InvalidUtf8IsError ==
    Received => ~(Result.kind = "Panic" /\ Result.why = "invalid utf-8")

\* C3: decoding a body whose user_agent bytes were damaged has panicked.
C3_Panicked ==
    /\ Received /\ cTamper = "corrupt"
    /\ Result.kind = "Panic" /\ Result.why = "invalid utf-8"

\* C4: a stream that ends before the body does makes decoding fail with a
\* decode error.
C4_TruncatedIsError ==
    (Received /\ cTamper = "truncate") => Result.kind = "Err"

\* C4: the stream ended inside the user_agent, the missing bytes were taken
\* to be the zeros of the fresh Vec, and decoding went on to panic.
C4_ZeroFilled ==
    /\ Received /\ cTamper = "truncate"
    /\ Result.kind = "Panic"

\* Whether a (services, address) pair came back as C5 says it must.
AddrCameBack(a, d) ==
    /\ d[1] = a[1]
    /\ d[2].port = a[2].port
    /\ a[2].tag = "V4" => d[2] = a[2]
    /\ (a[2].tag = "V6" /\ SubSeq(a[2].ip, 1, 12) # to_ipv6_mapped(<<>>)) =>
           d[2] = a[2]

\* C5: address round trip.  services and port come back, an IPv4 address
\* comes back as IPv4, a native IPv6 address (::1 too) comes back identical.
C5_AddrRoundTrip ==
    (Received /\ cTamper = "none" /\ Result.kind = "Ok") =>
        /\ AddrCameBack(cMsg.addr_recv, Result.val[1].addr_recv)
        /\ AddrCameBack(cMsg.addr_from, Result.val[1].addr_from)

\* C5: [::1]:18233 has come back as 0.0.0.1:18233.
C5_LoopbackBecameV4 ==
    /\ Received /\ cTamper = "none" /\ Result.kind = "Ok"
    /\ cMsg.addr_from[2].tag = "V6"
    /\ Result.val[1].addr_from[2] = SocketAddrV4(<<0, 0, 0, 1>>, U16(18233))

\* The prefix C6 names for a length l: the smallest form that holds it.
MinimalPrefix(l) ==
    IF NumLe(l, U64(\hfc)) THEN <<l[1]>>
    ELSE IF NumLe(l, U64(\hffff)) THEN <<\hfd, l[1] % 256, l[1] \div 256>>
    ELSE IF NumLe(l, <<\hffff, \hffff, 0, 0>>)
    THEN <<\hfe, l[1] % 256, l[1] \div 256, l[2] % 256, l[2] \div 256>>
    ELSE <<\hff>> \o to_le_bytes(l)

\* The number of bytes C6 names for the boundary lengths.
BoundaryWidth(l) ==
    IF l = U64(0) \/ l = U64(\hfc) THEN 1
    ELSE IF l = U64(\hfd) \/ l = U64(\hffff) THEN 3
    ELSE 5

BoundaryLengths == {U64(0), U64(\hfc), U64(\hfd), U64(\hffff), <<0, 1, 0, 0>>}

\* C6: CompactSize.  The user_agent on the wire starts with the minimal
\* prefix of its length L (so 1, 1, 3, 3, 5 bytes for 0, 0xfc, 0xfd, 0xffff,
\* 0x10000) followed by the L bytes and the 5 bytes of start_height and
\* relay, and decode_string reading it returns a string of L bytes: the
\* user_agent that was encoded.
C6_CompactSize ==
    LET L == BufLen(cMsg.user_agent)
        prefix == MinimalPrefix(L)
    IN  /\ Sent =>
              /\ TakeBytes(UserAgentOnWire, Len(prefix)).bytes = prefix
              /\ BufLen(UserAgentOnWire)
                     = NumAdd(NumAdd(L, U64(Len(prefix))), U64(5))
              /\ L \in BoundaryLengths => Len(prefix) = BoundaryWidth(L)
              /\ \A grant \in BOOLEAN :
                     /\ decode_string(UserAgentOnWire, grant).kind = "Ok"
                     /\ BufLen(decode_string(UserAgentOnWire, grant).val[1]) = L
        /\ (Received /\ cTamper = "none") =>
              /\ Result.kind = "Ok"
              /\ BufLen(Result.val[1].user_agent) = L
              /\ Result.val[1].user_agent = cMsg.user_agent

\* C6: a user_agent of 0xfd bytes went over the wire behind the 3-byte
\* prefix and was decoded.
C6_AtBoundary ==
    /\ Received /\ cTamper = "none"
    /\ BufLen(cMsg.user_agent) = U64(\hfd)
    /\ cHeader[1].body_length = U32(85 + 3 + \hfd)
    /\ BufLen(Result.val[1].user_agent) = U64(\hfd)

\* C7: the header's body_length is the number of body bytes on the stream.
C7_BodyLength ==
    Sent =>
        Cast(MessageHeader_from(TakeBytes(wire, 24).bytes).body_length, 4)
            = NumSub(BufLen(wire), U64(24))

\* C7: a body of 2^32 bytes or more is on the wire behind a header whose
\* body_length has wrapped.
C7_Wrapped ==
    /\ Sent
    /\ NumLt(<<65535, 65535, 0, 0>>, NumSub(BufLen(wire), U64(24)))
    /\ MessageHeader_from(TakeBytes(wire, 24).bytes).body_length = U32(0)
(***************************************************************************)
(* Properties of the recorder.                                             *)
(***************************************************************************)
\* C8: recorder isolation.  What counters() or histograms() returns holds
\* no entry for a name used before a clear() and not registered and
\* written again since.
C8_RecorderIsolation ==
    lastRead # <<>> =>
        \A k \in lastRead[1].stale : k \notin DOMAIN lastRead[1].map

\* C8: histograms() has returned, after a clear(), the samples written to
\* the latency histogram before it.
C8_SamplesSurvive ==
    /\ lastRead # <<>>
    /\ lastRead[1].getter = "histograms"
    /\ METRIC_LATENCY \in lastRead[1].stale
    /\ METRIC_LATENCY \in DOMAIN lastRead[1].map
    /\ entries(lastRead[1].map[METRIC_LATENCY]) > 0

\* C11: install is idempotent.  A SimpleRecorder made while a recorder was
\* installed already shows, through counters() and histograms(), every name
\* written to since it was made.
C11_InstallIdempotent ==
    (lastRead # <<>> /\ lastRead[1].already) =>
        lastRead[1].since \subseteq DOMAIN lastRead[1].map

\* C11: a second SimpleRecorder was made next to the installed one, the
\* counter was incremented, no clear() was ever called, and counters() of
\* the second one has returned a map without the counter.
C11_SecondHandleBlind ==
    /\ lastRead # <<>>
    /\ lastRead[1].already
    /\ lastRead[1].getter = "counters"
    /\ lastRead[1].stale = {}
    /\ installed # 0
    /\ "pings_sent" \in lastRead[1].since
    /\ "pings_sent" \notin DOMAIN lastRead[1].map

\* C12: a write to a name that was never registered is dropped.  What
\* counters() or histograms() returns holds entries for registered names
\* only.
C12_UnregisteredDropped ==
    lastRead # <<>> =>
        DOMAIN lastRead[1].map \subseteq lastRead[1].registered

\* C12: histograms() has returned the latency histogram with a sample in
\* it, and the name was never registered.
C12_UnregisteredCaptured ==
    /\ lastRead # <<>>
    /\ lastRead[1].getter = "histograms"
    /\ METRIC_LATENCY \notin lastRead[1].registered
    /\ METRIC_LATENCY \in DOMAIN lastRead[1].map
    /\ entries(lastRead[1].map[METRIC_LATENCY]) > 0

(***************************************************************************)
(* Properties of the ping-pong test.                                       *)
(***************************************************************************)
\* C9: the latency histogram the driver reads once all peers of the round
\* have ended holds one sample per completed round trip of the round.
C9_SampleCount ==
    latencies # <<>> => entries(latencies[1].value) = completed

\* C9: the driver has read the histogram of a round of two peers in which
\* several round trips were completed, two of them with latencies that
\* fall into the same bucket.
C9_SamplesCounted ==
    /\ latencies # <<>>
    /\ latencies[1].found
    /\ synth_counts[round] = 2
    /\ completed >= 2
    /\ \E b \in BagToSet(latencies[1].value) :
           CopiesIn(b, latencies[1].value) >= 2

\* C10: whatever recv_message_timeout returns to a peer is Pong of the nonce
\* of the Ping the peer sent in that iteration, and no peer has failed the
\* assertion reply == expected.
C10_ReplyMatches ==
    \A p \in Peers :
        /\ peer[p].pc # "assert_failed"
        /\ (peer[p].pc = "recv" /\ inbound[p] # <<>>) =>
               Head(inbound[p]) = Pong(peer[p].nonce)

\* C10: recv_message_timeout has returned to a peer the Ping the node sent
\* on its own, which the read task had answered and enqueued, and the
\* peer's assertion reply == expected has failed.
C10_AssertFailed ==
    \E p \in Peers :
        /\ peer[p].pc = "assert_failed"
        /\ peer[p].sent = peer[p].i + 1
        /\ nodePings[p] > 0

\* The Pings of a peer that are on their way or whose Pong is: not yet
\* taken by the node, or answered and the Pong not yet received.
RECURSIVE CountKind(_, _)
CountKind(frames, kind) ==
    IF frames = <<>> THEN 0
    ELSE (IF Head(frames).kind = kind THEN 1 ELSE 0)
         + CountKind(Tail(frames), kind)

Outstanding(p) ==
    CountKind(toNode[p], "Ping") + CountKind(toPeer[p], "Pong")
        + CountKind(inbound[p], "Pong")

\* recv_message_timeout of peer p times out in this step: the peer moves
\* on with nothing to receive.
TimesOut(p) ==
    peer[p].pc = "recv" /\ inbound[p] = <<>> /\ peer'[p] # peer[p]

\* C13: a receive timeout is benign and final.  The step in which
\* recv_message_timeout times out records no sample and ends the peer's
\* task without a panic and with no round trip counted for the iteration;
\* a peer that is done sends nothing more; a peer sends at most PINGS
\* Pings and has at most one of them unanswered at any time; and no peer
\* task runs for ever: a spawned peer always comes to its end.
C13_TimeoutFinal ==
    /\ [][\A p \in Peers :
            TimesOut(p) =>
                /\ peer'[p].pc = "done"
                /\ peer'[p].i = peer[p].i
                /\ peer'[p].sent = peer[p].sent
                /\ registry' = registry
                /\ completed' = completed]_vars
    /\ [][\A p \in Peers :
            peer[p].pc = "done" =>
                /\ peer'[p].sent = peer[p].sent \/ peer'[p] = Unspawned
                /\ toNode'[p] = <<>>]_vars
    /\ [](\A p \in Peers :
            /\ peer[p].sent <= PINGS
            /\ peer[p].sent - peer[p].i <= 1
            /\ Outstanding(p) <= 1)
    /\ \A p \in Peers : []<>(~Running(p))

\* C13: a peer whose first Ping went unanswered has ended after the one
\* Ping, with no round trip completed, while the other peer of the round
\* goes on.
C13_TimedOutFirst ==
    \E p, q \in Peers :
        /\ peer[p].pc = "done"
        /\ peer[p].sent = 1
        /\ peer[p].i = 0
        /\ peer[q].pc = "recv"
        /\ completed > 0

\* No task of simulate_peer is running.
NoPeerRunning == \A p \in Peers : ~Running(p)

\* The samples the recorder read by the driver holds.
RECURSIVE SamplesHeld(_, _)
SamplesHeld(g, ks) ==
    IF ks = {} THEN 0
    ELSE LET k == CHOOSE x \in ks : TRUE
         IN  Len(g.histograms[k]) + SamplesHeld(g, ks \ {k})

\* A latency sample is written in this step.
SampleWritten == completed' = completed + 1

\* C14: the phases of a round.  While the driver clears and registers, no
\* peer of the round is spawned and the recorder it will read holds no
\* sample; it reads the histograms only when every peer task of the round
\* has ended; a sample is written only between the first spawn and the
\* last join, by a peer spawned in the round; and the snapshot of a round
\* holds no more samples than the round's peers recorded.
C14_PhaseOrder ==
    /\ [](dPc \in {"clear", "register"} =>
            /\ spawned = 0
            /\ \A p \in Peers : peer[p].pc = "unspawned")
    /\ []((dPc = "spawn" /\ spawned = 0) =>
            SamplesHeld(registry[installed],
                        DOMAIN registry[installed].histograms) = 0)
    /\ [](dPc = "latencies" =>
            /\ joined = synth_counts[round]
            /\ spawned = synth_counts[round]
            /\ NoPeerRunning)
    /\ [][SampleWritten =>
            /\ dPc \in {"spawn", "join"}
            /\ dPc' = dPc
            /\ \E p \in 1..spawned :
                   peer[p].pc = "recv" /\ peer'[p].i = peer[p].i + 1]_vars
    /\ [](latencies # <<>> => entries(latencies[1].value) <= completed)

\* C14: the driver is about to read the histograms of a round of two
\* peers: both were awaited and have ended, one of them by a timeout after
\* a completed round trip.
C14_ReadAfterPeers ==
    /\ dPc = "latencies"
    /\ synth_counts[round] = 2
    /\ joined = 2
    /\ \A p \in Peers : Ended(p)
    /\ \E p \in Peers : peer[p].sent = peer[p].i + 1
    /\ completed > 0
====
